---------------------------- MODULE Spec2Model ----------------------------
(***************************************************************************)
(* A model of the chat-coding scripts:                                     *)
(*   convo_regenerator.py       pairwise pipeline (aliases, conversation   *)
(*                              buckets, date units, speaking turns)       *)
(*   group_chat_regenerator.py  group-chat pipeline (filter, sort, turns)  *)
(*   blackbasta_json_cleaner.py identifier cleaning                        *)
(*                                                                         *)
(* Timestamps are whole seconds counted from midnight of a reference day   *)
(* (negative: the day before).  A message of the pairwise pipeline is the  *)
(* tuple <<ts, sender, receiver, body>> the code stores; a message of the  *)
(* group-chat pipeline is a record (a dict) with the keys chat_id,         *)
(* sender_alias, timestamp and message.  A message body is an opaque id.   *)
(* Strings that the code inspects character by character (identifiers     *)
(* given to the cleaner) are sequences of one-character strings.           *)
(***************************************************************************)
EXTENDS Integers, Sequences, FiniteSets, TLC

VARIABLES
    pc,                     \* position of the pairwise pipeline
    user_match_list,        \* the alias file: [readable, entries]
    conti_chats,            \* the chat-log files, in order: each [exists, valid, items]
    file_idx,               \* the file the reading loop is at
    alias_mapping,          \* dict alias -> primary
    structured_messages,    \* dict key1 -> dict key2 -> list of message tuples
    initial_count,
    processed_count,
    mismatch,               \* whether "Mismatch detected!" was printed
    conversation_segments,  \* dict (user_i, user_j) -> list of units
    conversation_turns,     \* dict (user_i, user_j) -> list of lists of turns
    dropdown_configs,       \* the dropdown configurations given to the run
    output_users,           \* the user pairs HTML is asked for
    html_idx,               \* the pair the HTML loop is at
    html_files,             \* dict (user_i, user_j) -> the page written for the pair
    html_log,               \* the pairs reported as having no conversation
    gpc,                    \* position of the group-chat pipeline
    file_path,              \* group chat: the file, [exists, valid, items]
    main_user,              \* group chat: the main user, or None
    messages,               \* group chat: the parsed messages
    chat_id,                \* group chat: the requested chat id
    group_html,             \* group chat: the page, [written, page]
    chat_messages,          \* group chat: filtered (then sorted) messages
    turns,                  \* group chat: the turns
    cpc,                    \* position of the cleaner
    input_file,             \* cleaner: the input file, [content, items]
    output_file,            \* cleaner: the path to save to, or None
    data,                   \* cleaner: the messages read from the input file
    cleaned_data,           \* cleaner: the cleaned messages
    saved,                  \* cleaner: the output file, [written, complete, content]
    result,                 \* cleaner: the list clean_matrix_json returned
    bpc,                    \* position of the batch cleaner
    file_paths,             \* batch: the files glob found, [name, file]
    batch_idx,              \* batch: the file the loop is at
    batch_log,              \* batch: the "Processed N messages" lines, N per file
    output_dir,             \* batch: dict output path -> the file written there
    spc,                    \* position of the script coding_files_generator.py
    script_globals,         \* script: dict global name -> value
    pickle_file,            \* script: the pickle file, [exists, value]
    script_html,            \* script: dict file name -> the page written
    alias_warning,          \* whether "Failed to load alias mapping" was printed
    file_warnings           \* the places in conti_chats of the paths reported with
                            \* "Warning: File not found", in the order of the prints

convoVars == <<pc, user_match_list, conti_chats, file_idx, alias_mapping,
               structured_messages, initial_count, processed_count, mismatch,
               conversation_segments, conversation_turns, output_users, html_idx,
               html_files, html_log>>
htmlVars == <<output_users, html_idx, html_files, html_log>>
groupVars == <<gpc, file_path, main_user, messages, chat_id, chat_messages, turns,
               group_html>>
cleanVars == <<cpc, input_file, output_file, data, cleaned_data, saved, result>>
batchVars == <<bpc, file_paths, batch_idx, batch_log, output_dir>>
scriptVars == <<spc, script_globals, pickle_file, script_html>>
vars == <<convoVars, groupVars, cleanVars, dropdown_configs, batchVars, scriptVars,
          alias_warning, file_warnings>>

(***************************************************************************)
(* Bounds of the model.                                                    *)
(***************************************************************************)
\* longest sorted conversation given to the segmenters
MaxTurnMsgs == 5
\* most messages in the chat-log files of one run of the whole pairwise pipeline
MaxLogMsgs == 2
\* most entries of an alias file, and most aliases of one entry
MaxAliasEntries == 2
MaxAliasesPerEntry == 1
\* longest identifier given to the cleaner, apart from the documented examples
MaxIdLen == 5
\* most items of an input file of the cleaner
MaxFileItems == 2
\* most dropdown configurations and most user pairs of one run
MaxConfigs == 2
MaxPairs == 2
\* most messages of a group-chat file, apart from the long chat
MaxGroupMsgs == 3
\* messages of the conversation read in every order
MaxShuffled == 3

(***************************************************************************)
(* Program constants.                                                      *)
(***************************************************************************)
\* the 30 minute threshold of both segmenters
TurnGapSeconds == 1800
\* datetime.date(): one calendar date is 86400 seconds
SecondsPerDay == 86400

\* Python's None (current_sender before the first message)
None == "<None>"
\* an empty dict
EmptyDict == [k \in {} |-> {}]

\* the batch cleaner and the script are not running
BatchIdle ==
    /\ bpc = "idle"
    /\ file_paths = <<>>
    /\ batch_idx = 1
    /\ batch_log = <<>>
    /\ output_dir = EmptyDict
ScriptIdle ==
    /\ spc = "idle"
    /\ script_globals = EmptyDict
    /\ pickle_file = [exists |-> FALSE, value |-> EmptyDict]
    /\ script_html = EmptyDict

(***************************************************************************)
(* Python's order on the participant names used here (code point order:    *)
(* upper case before lower case).                                          *)
(***************************************************************************)
NameOrder == <<"Robert", "alice", "bob">>
Names == {NameOrder[i] : i \in 1..Len(NameOrder)}
NameRank(s) == CHOOSE i \in 1..Len(NameOrder) : NameOrder[i] = s
StrLeq(a, b) == NameRank(a) <= NameRank(b)

\* d[k] = v
Put(d, k, v) == [x \in (DOMAIN d) \cup {k} |-> IF x = k THEN v ELSE d[x]]

\* msg.get(key, default)
Get(msg, key, default) == IF key \in DOMAIN msg THEN msg[key] ELSE default

(***************************************************************************)
(* Step 0 of the pairwise pipeline: the alias table.                       *)
(***************************************************************************)
\* mutant: every alias is mapped to itself
AddAliases_Identity(mapping, aliases, primary) ==
    [x \in (DOMAIN mapping) \cup {aliases[i] : i \in 1..Len(aliases)} |->
        IF x \in DOMAIN mapping THEN mapping[x] ELSE x]

\* for alias in entry.get('aliases', []): alias_mapping[alias] = primary
RECURSIVE AddAliases(_, _, _)
AddAliases(mapping, aliases, primary) ==
    IF aliases = <<>> THEN mapping
    ELSE AddAliases(Put(mapping, Head(aliases), primary), Tail(aliases), primary)

\* one entry of the alias list; an entry whose primary is missing or empty
\* is passed over
AddEntry(mapping, entry) ==
    LET primary == Get(entry, "primary", None)
    IN  IF primary # None /\ primary # ""
        THEN AddAliases(Put(mapping, primary, primary), Get(entry, "aliases", <<>>),
                        primary)
        ELSE mapping

RECURSIVE BuildFrom(_, _)
BuildFrom(mapping, alias_list) ==
    IF alias_list = <<>> THEN mapping
    ELSE BuildFrom(AddEntry(mapping, Head(alias_list)), Tail(alias_list))

\* alias_mapping as built from alias_list
BuildAliasMapping(alias_list) == BuildFrom(EmptyDict, alias_list)

\* alias_mapping.get(name, name)
Canonical(mapping, name) == Get(mapping, name, name)

(***************************************************************************)
(* Step 1 of the pairwise pipeline: the conversation buckets.              *)
(***************************************************************************)
\* mutant: the key is (sender, receiver) as they come
SortedPair_Unsorted(a, b) == <<a, b>>

\* mutant: the two names are sorted in descending order
SortedPair_Descending(a, b) == IF StrLeq(a, b) THEN <<b, a>> ELSE <<a, b>>

\* sorted([a, b])
SortedPair(a, b) == IF StrLeq(a, b) THEN <<a, b>> ELSE <<b, a>>

\* mutant: the list of the conversation is started anew for every message
AddMessage_NewList(sm, item, mapping) ==
    LET sender_canonical == Canonical(mapping, item.from)
        receiver_canonical == Canonical(mapping, item.to)
        keys == SortedPair(sender_canonical, receiver_canonical)
        sm1 == IF keys[1] \notin DOMAIN sm THEN Put(sm, keys[1], EmptyDict) ELSE sm
    IN  [sm1 EXCEPT ![keys[1]] =
            Put(@, keys[2], <<<<item.ts, sender_canonical, receiver_canonical, item.body>>>>)]

\* the body of the loop over the items of one file
AddMessage(sm, item, mapping) ==
    LET sender == item.from
        receiver == item.to
        sender_canonical == Canonical(mapping, sender)
        receiver_canonical == Canonical(mapping, receiver)
        keys == SortedPair(sender_canonical, receiver_canonical)
        key1 == keys[1]
        key2 == keys[2]
        sm1 == IF key1 \notin DOMAIN sm THEN Put(sm, key1, EmptyDict) ELSE sm
        sm2 == IF key2 \notin DOMAIN sm1[key1]
               THEN [sm1 EXCEPT ![key1] = Put(@, key2, <<>>)]
               ELSE sm1
    IN  [sm2 EXCEPT ![key1][key2] =
            Append(@, <<item.ts, sender_canonical, receiver_canonical, item.body>>)]

RECURSIVE AddMessages(_, _, _)
AddMessages(sm, logs, mapping) ==
    IF logs = <<>> THEN sm
    ELSE AddMessages(AddMessage(sm, Head(logs), mapping), Tail(logs), mapping)

\* the keys (user_i, user_j) of the nested dict
ConvKeys(sm) == {k \in Names \X Names : k[1] \in DOMAIN sm /\ k[2] \in DOMAIN sm[k[1]]}

(***************************************************************************)
(* Step 2 of the pairwise pipeline: the count and the sort.                *)
(***************************************************************************)
RECURSIVE SumLen(_, _)
SumLen(sm, keys) ==
    IF keys = {} THEN 0
    ELSE LET k == CHOOSE k \in keys : TRUE
         IN  Len(sm[k[1]][k[2]]) + SumLen(sm, keys \ {k})

\* sum(len(convo) for user in ... for convo in user.values())
ProcessedCount(sm) == SumLen(sm, ConvKeys(sm))

\* mutant: m is put before the elements that have its own timestamp
RECURSIVE InsertByTime_BeforeEqual(_, _)
InsertByTime_BeforeEqual(sorted, m) ==
    IF sorted = <<>> THEN <<m>>
    ELSE IF sorted[Len(sorted)][1] < m[1] THEN Append(sorted, m)
         ELSE Append(InsertByTime_BeforeEqual(SubSeq(sorted, 1, Len(sorted) - 1), m),
                     sorted[Len(sorted)])

\* m is put behind the last element whose timestamp is not later than its own
RECURSIVE InsertByTime(_, _)
InsertByTime(sorted, m) ==
    IF sorted = <<>> THEN <<m>>
    ELSE IF sorted[Len(sorted)][1] <= m[1] THEN Append(sorted, m)
         ELSE Append(InsertByTime(SubSeq(sorted, 1, Len(sorted) - 1), m),
                     sorted[Len(sorted)])

RECURSIVE SortFrom(_, _)
SortFrom(sorted, rest) ==
    IF rest = <<>> THEN sorted ELSE SortFrom(InsertByTime(sorted, Head(rest)), Tail(rest))

\* list.sort(key=lambda x: x[0]): the stable sort by timestamp
SortByTime(msgs) == SortFrom(<<>>, msgs)

(***************************************************************************)
(* Step 3 of the pairwise pipeline: units by calendar date.                *)
(***************************************************************************)
\* mutant: the key is the timestamp itself (.date() forgotten)
DateOf_Timestamp(ts) == ts

\* msg[0].date()
DateOf(ts) == ts \div SecondsPerDay

\* conversation_units[msg_date].append(msg) for msg = messages[i], ...; the
\* units are kept in the insertion order of their dates, as the defaultdict
\* keeps them, and the key of a unit is the date of its messages.
RECURSIVE GroupFrom(_, _, _)
GroupFrom(msgs, i, units) ==
    IF i > Len(msgs) THEN units
    ELSE LET msg == msgs[i]
             hit == {j \in 1..Len(units) : DateOf(units[j][1][1]) = DateOf(msg[1])}
         IN  IF hit = {}
             THEN GroupFrom(msgs, i + 1, Append(units, <<msg>>))
             ELSE LET j == CHOOSE j \in hit : TRUE
                  IN  GroupFrom(msgs, i + 1, [units EXCEPT ![j] = Append(@, msg)])

\* mutant: the whole conversation is one unit
GroupByDate_OneUnit(msgs) == IF msgs = <<>> THEN <<>> ELSE <<msgs>>

\* list(conversation_units.values())
GroupByDate(msgs) == GroupFrom(msgs, 1, <<>>)

(***************************************************************************)
(* Step 4 of the pairwise pipeline: speaking turns inside a unit.          *)
(***************************************************************************)
\* mutant: only a change of sender closes a turn
TurnBreak_SenderOnly(prev_msg, curr_msg) == curr_msg[2] # prev_msg[2]

\* mutant: a gap of exactly 30 minutes closes the turn too
TurnBreak_AtLeast(prev_msg, curr_msg) ==
    \/ curr_msg[2] # prev_msg[2]
    \/ (curr_msg[1] - prev_msg[1]) >= TurnGapSeconds

\* the sender changed, or more than 30 minutes passed since the previous message
TurnBreak(prev_msg, curr_msg) ==
    \/ curr_msg[2] # prev_msg[2]
    \/ (curr_msg[1] - prev_msg[1]) > TurnGapSeconds

\* the loop over range(1, len(unit)), then the final turn
RECURSIVE SplitFrom(_, _, _, _)
SplitFrom(unit, i, done, current_turn) ==
    IF i > Len(unit)
    THEN IF current_turn # <<>> THEN Append(done, current_turn) ELSE done
    ELSE IF TurnBreak(unit[i - 1], unit[i])
         THEN SplitFrom(unit, i + 1, Append(done, current_turn), <<unit[i]>>)
         ELSE SplitFrom(unit, i + 1, done, Append(current_turn, unit[i]))

\* mutant: the final open turn is not appended
SplitTurns_DropsLast(unit) ==
    LET all == SplitFrom(unit, 2, <<>>, <<unit[1]>>) IN SubSeq(all, 1, Len(all) - 1)

\* the turns of one non-empty unit
SplitTurns(unit) == SplitFrom(unit, 2, <<>>, <<unit[1]>>)

\* new_units of one conversation: empty units are skipped
RECURSIVE SplitUnits(_)
SplitUnits(units) ==
    IF units = <<>> THEN <<>>
    ELSE IF Head(units) = <<>> THEN SplitUnits(Tail(units))
         ELSE <<SplitTurns(Head(units))>> \o SplitUnits(Tail(units))

(***************************************************************************)
(* The group-chat segmenter.                                               *)
(***************************************************************************)
\* datetime.min, the default of a missing timestamp
DatetimeMin == -1000000

\* mutant: the gap is measured from the first message of the open turn
GroupTurnBreak_FirstOfTurn(sender, timestamp, current_sender, current_turn) ==
    \/ sender # current_sender
    \/ /\ current_turn # <<>>
       /\ (timestamp - Get(current_turn[1], "timestamp", DatetimeMin)) > TurnGapSeconds

\* mutant: a change of sender alone does not close the turn
GroupTurnBreak_TimeOnly(sender, timestamp, current_sender, current_turn) ==
    \/ current_turn = <<>>
    \/ (timestamp - Get(current_turn[Len(current_turn)], "timestamp", DatetimeMin))
           > TurnGapSeconds

\* mutant: a gap of exactly 30 minutes closes the turn of the group chat too
GroupTurnBreak_AtLeast(sender, timestamp, current_sender, current_turn) ==
    \/ sender # current_sender
    \/ /\ current_turn # <<>>
       /\ (timestamp - Get(current_turn[Len(current_turn)], "timestamp", DatetimeMin))
              >= TurnGapSeconds

\* sender != current_sender or (current_turn and gap > 1800)
GroupTurnBreak(sender, timestamp, current_sender, current_turn) ==
    \/ sender # current_sender
    \/ /\ current_turn # <<>>
       /\ (timestamp - Get(current_turn[Len(current_turn)], "timestamp", DatetimeMin))
              > TurnGapSeconds

RECURSIVE GroupTurnsFrom(_, _, _, _, _)
GroupTurnsFrom(msgs, i, done, current_sender, current_turn) ==
    IF i > Len(msgs)
    THEN IF current_turn # <<>> THEN Append(done, current_turn) ELSE done
    ELSE LET msg == msgs[i]
             sender == Get(msg, "sender_alias", "")
             timestamp == Get(msg, "timestamp", DatetimeMin)
         IN  IF GroupTurnBreak(sender, timestamp, current_sender, current_turn)
             THEN GroupTurnsFrom(msgs, i + 1,
                                 IF current_turn # <<>> THEN Append(done, current_turn)
                                                        ELSE done,
                                 sender, <<msg>>)
             ELSE GroupTurnsFrom(msgs, i + 1, done, current_sender,
                                 Append(current_turn, msg))

\* mutant: the last open turn is not added
GroupTurns_NoLast(msgs) ==
    LET all == GroupTurnsFrom(msgs, 1, <<>>, None, <<>>) IN SubSeq(all, 1, Len(all) - 1)

GroupTurns(msgs) == GroupTurnsFrom(msgs, 1, <<>>, None, <<>>)

(***************************************************************************)
(* Files of the cleaner.  An input file is missing, holds malformed JSON,  *)
(* a JSON scalar, one JSON object, or a JSON array of items; an item is an *)
(* object (a message) or a string.  non_string names the keys of a message *)
(* whose value is not a string (a number, null); encodable is FALSE when a *)
(* string of the message cannot be written as UTF-8 (a lone surrogate).    *)
(***************************************************************************)
\* a chat-log file: a path that does not exist, a file that is not JSON, a
\* file with a JSON array of items
MissingFile == [exists |-> FALSE, valid |-> FALSE, items |-> <<>>]
MalformedFile == [exists |-> TRUE, valid |-> FALSE, items |-> <<>>]
LogFile(items) == [exists |-> TRUE, valid |-> TRUE, items |-> items]

\* no page
NoPage == [csv_header |-> <<>>, blocks |-> <<>>]
NoGroupHtml == [written |-> FALSE, page |-> NoPage]

NoInputFile == [content |-> "missing", items |-> <<>>]
NothingSaved == [written |-> FALSE, complete |-> FALSE, content |-> <<>>]

(***************************************************************************)
(* Actions of the pairwise pipeline.                                       *)
(***************************************************************************)
\* mutant: no try around the loading, the error of an unreadable file leaves
\* the function
LoadAliases_NoTry ==
    /\ pc = "load_aliases"
    /\ alias_mapping' = IF user_match_list.readable
                        THEN BuildAliasMapping(user_match_list.entries)
                        ELSE alias_mapping
    /\ pc' = IF user_match_list.readable THEN "read_files" ELSE "raised"
    /\ UNCHANGED <<user_match_list, conti_chats, file_idx, structured_messages,
                   initial_count, processed_count, mismatch, conversation_segments,
                   conversation_turns>>
    /\ UNCHANGED <<htmlVars, dropdown_configs, groupVars, cleanVars>>
    /\ UNCHANGED <<batchVars, scriptVars, alias_warning, file_warnings>>

\* Step 0: the alias file is loaded (an unreadable file gives an empty list)
\* and the alias table is built
LoadAliases ==
    /\ pc = "load_aliases"
    /\ LET alias_list == IF user_match_list.readable THEN user_match_list.entries
                         ELSE <<>>
       IN  alias_mapping' = BuildAliasMapping(alias_list)
    /\ alias_warning' = ~user_match_list.readable
    /\ pc' = "read_files"
    /\ UNCHANGED <<user_match_list, conti_chats, file_idx, structured_messages,
                   initial_count, processed_count, mismatch, conversation_segments,
                   conversation_turns>>
    /\ UNCHANGED <<htmlVars, dropdown_configs, groupVars, cleanVars>>
    /\ UNCHANGED <<batchVars, scriptVars, file_warnings>>

\* Step 1, a file that exists: its items are counted and put into their buckets
ReadFile ==
    /\ pc = "read_files"
    /\ file_idx <= Len(conti_chats)
    /\ conti_chats[file_idx].exists
    /\ conti_chats[file_idx].valid
    /\ LET logs == conti_chats[file_idx].items
       IN  /\ initial_count' = initial_count + Len(logs)
           /\ structured_messages' = AddMessages(structured_messages, logs, alias_mapping)
    /\ file_idx' = file_idx + 1
    /\ UNCHANGED <<pc, user_match_list, conti_chats, alias_mapping, processed_count,
                   mismatch, conversation_segments, conversation_turns>>
    /\ UNCHANGED <<htmlVars, dropdown_configs, groupVars, cleanVars>>
    /\ UNCHANGED <<batchVars, scriptVars, alias_warning, file_warnings>>

\* mutant: a path that does not exist ends the reading loop after its warning
SkipMissingFile_Stops ==
    /\ pc = "read_files"
    /\ file_idx <= Len(conti_chats)
    /\ ~conti_chats[file_idx].exists
    /\ file_warnings' = Append(file_warnings, file_idx)
    /\ file_idx' = Len(conti_chats) + 1
    /\ UNCHANGED <<pc, user_match_list, conti_chats, alias_mapping, structured_messages,
                   initial_count, processed_count, mismatch, conversation_segments,
                   conversation_turns>>
    /\ UNCHANGED <<htmlVars, dropdown_configs, groupVars, cleanVars>>
    /\ UNCHANGED <<batchVars, scriptVars, alias_warning>>

\* mutant: a path that does not exist is passed over without a word
SkipMissingFile_Silent ==
    /\ pc = "read_files"
    /\ file_idx <= Len(conti_chats)
    /\ ~conti_chats[file_idx].exists
    /\ file_idx' = file_idx + 1
    /\ UNCHANGED <<pc, user_match_list, conti_chats, alias_mapping, structured_messages,
                   initial_count, processed_count, mismatch, conversation_segments,
                   conversation_turns>>
    /\ UNCHANGED <<htmlVars, dropdown_configs, groupVars, cleanVars>>
    /\ UNCHANGED <<batchVars, scriptVars, alias_warning, file_warnings>>

\* Step 1, a path that does not exist: the else branch prints "Warning: File
\* not found: <path>", and the loop goes on to the next file
SkipMissingFile ==
    /\ pc = "read_files"
    /\ file_idx <= Len(conti_chats)
    /\ ~conti_chats[file_idx].exists
    /\ file_warnings' = Append(file_warnings, file_idx)
    /\ file_idx' = file_idx + 1
    /\ UNCHANGED <<pc, user_match_list, conti_chats, alias_mapping, structured_messages,
                   initial_count, processed_count, mismatch, conversation_segments,
                   conversation_turns>>
    /\ UNCHANGED <<htmlVars, dropdown_configs, groupVars, cleanVars>>
    /\ UNCHANGED <<batchVars, scriptVars, alias_warning>>

\* Step 2: the stored messages are counted, every conversation is sorted by
\* time, and a difference of the two counts is reported
CountAndSort ==
    /\ pc = "read_files"
    /\ file_idx > Len(conti_chats)
    /\ processed_count' = ProcessedCount(structured_messages)
    /\ structured_messages' =
           [a \in DOMAIN structured_messages |->
               [b \in DOMAIN structured_messages[a] |->
                   SortByTime(structured_messages[a][b])]]
    /\ mismatch' = (initial_count # processed_count')
    /\ pc' = "segment_by_date"
    /\ UNCHANGED <<user_match_list, conti_chats, file_idx, alias_mapping, initial_count,
                   conversation_segments, conversation_turns>>
    /\ UNCHANGED <<htmlVars, dropdown_configs, groupVars, cleanVars>>
    /\ UNCHANGED <<batchVars, scriptVars, alias_warning, file_warnings>>

\* Step 3: every conversation is split into date units
SegmentByDate ==
    /\ pc = "segment_by_date"
    /\ conversation_segments' =
           [k \in ConvKeys(structured_messages) |->
               GroupByDate(structured_messages[k[1]][k[2]])]
    /\ pc' = "split_turns"
    /\ UNCHANGED <<user_match_list, conti_chats, file_idx, alias_mapping,
                   structured_messages, initial_count, processed_count, mismatch,
                   conversation_turns>>
    /\ UNCHANGED <<htmlVars, dropdown_configs, groupVars, cleanVars>>
    /\ UNCHANGED <<batchVars, scriptVars, alias_warning, file_warnings>>

\* Step 4: every unit is split into speaking turns
SplitIntoTurns ==
    /\ pc = "split_turns"
    /\ conversation_turns' =
           [k \in DOMAIN conversation_segments |-> SplitUnits(conversation_segments[k])]
    /\ pc' = "done"
    /\ UNCHANGED <<user_match_list, conti_chats, file_idx, alias_mapping,
                   structured_messages, initial_count, processed_count, mismatch,
                   conversation_segments>>
    /\ UNCHANGED <<htmlVars, dropdown_configs, groupVars, cleanVars>>
    /\ UNCHANGED <<batchVars, scriptVars, alias_warning, file_warnings>>

(***************************************************************************)
(* Actions of the group-chat pipeline.                                     *)
(***************************************************************************)
\* group_chat_to_html returns early when the chat has no message
GroupNoMessages ==
    /\ gpc = "segment"
    /\ chat_messages = <<>>
    /\ gpc' = "no_messages"
    /\ UNCHANGED <<file_path, main_user, messages, chat_id, chat_messages, turns,
                   group_html>>
    /\ UNCHANGED <<convoVars, cleanVars, dropdown_configs>>
    /\ UNCHANGED <<batchVars, scriptVars, alias_warning, file_warnings>>

\* the loop that groups the sorted chat messages into turns
GroupIntoTurns ==
    /\ gpc = "segment"
    /\ chat_messages # <<>>
    /\ turns' = GroupTurns(chat_messages)
    /\ gpc' = "done"
    /\ UNCHANGED <<file_path, main_user, messages, chat_id, chat_messages, group_html>>
    /\ UNCHANGED <<convoVars, cleanVars, dropdown_configs>>
    /\ UNCHANGED <<batchVars, scriptVars, alias_warning, file_warnings>>

(***************************************************************************)
(* The HTML pages.  A page is what the generators put into the file: the   *)
(* CSV header embedded in the script and the turn blocks, in order.  A     *)
(* text built by formatting is the sequence of its pieces.  The options of *)
(* a dropdown configuration are [type, keys]: a list (type "list") of      *)
(* option names, or a dict (type "dict") with the keys in their order.     *)
(***************************************************************************)
\* the defaults of the optional keys of a configuration
WithDefaults(config) ==
    LET c == IF "button_text" \in DOMAIN config THEN config
             ELSE Put(config, "button_text", <<"Add ", config.label>>)
    IN  IF "csv_column" \in DOMAIN c THEN c ELSE Put(c, "csv_column", c.label)

AllWithDefaults(configs) == [i \in 1..Len(configs) |-> WithDefaults(configs[i])]

\* isinstance(config['options'], dict)
IsDependent(config) == config.options.type = "dict"

\* mutant: every configuration gets a second column
CsvColumns_AlwaysDetailed(config) ==
    <<<<config.csv_column>>, <<config.csv_column, "_Detailed">>>>

\* the columns of one configuration
CsvColumns(config) ==
    IF IsDependent(config)
    THEN <<<<config.csv_column>>, <<config.csv_column, "_Detailed">>>>
    ELSE <<<<config.csv_column>>>>

\* csv_header: the first columns, then the columns of every configuration
RECURSIVE CsvHeader(_, _)
CsvHeader(csv_header, configs) ==
    IF configs = <<>> THEN csv_header
    ELSE CsvHeader(csv_header \o CsvColumns(Head(configs)), Tail(configs))

\* generate_options: the '--None--' option, then the options given
GenerateOptions(options) == <<"--None--">> \o options

\* the controls of configuration i in a turn block
ControlGroup(i, config) ==
    LET is_dependent == IsDependent(config)
    IN  [cat |-> i,
         class |-> IF is_dependent THEN "category-group" ELSE "dropdown-group-container",
         label |-> config.label,
         options |-> IF is_dependent
                     THEN GenerateOptions(Append(config.options.keys, "Other"))
                     ELSE GenerateOptions(config.options.keys),
         detailed |-> is_dependent,
         other |-> is_dependent,
         button_text |-> config.button_text]

\* mutant: the controls of the first configuration only
Controls_FirstOnly(configs) ==
    [i \in 1..(IF configs = <<>> THEN 0 ELSE 1) |-> ControlGroup(i, configs[i])]

\* the dropdown container of a turn block
Controls(configs) == [i \in 1..Len(configs) |-> ControlGroup(i, configs[i])]

\* the turn blocks of the turns of a unit from turn_idx on (turn_idx counts
\* from 0, cumulative_turn from 1)
RECURSIVE UnitBlocks(_, _, _, _, _, _)
UnitBlocks(unit, unit_idx, turn_idx, cumulative_turn, user_i, configs) ==
    IF turn_idx >= Len(unit) THEN <<>>
    ELSE LET turn == unit[turn_idx + 1]
         IN  IF turn = <<>>
             THEN UnitBlocks(unit, unit_idx, turn_idx + 1, cumulative_turn, user_i, configs)
             ELSE <<[unit |-> unit_idx,
                     turn |-> turn_idx,
                     number |-> cumulative_turn,
                     sender |-> turn[1][2],
                     alignment |-> IF turn[1][2] = user_i THEN "right" ELSE "left",
                     messages |-> turn,
                     controls |-> Controls(configs)]>>
                  \o UnitBlocks(unit, unit_idx, turn_idx + 1, cumulative_turn + 1,
                                user_i, configs)

\* mutant: the numbers start again at 1 in every unit
RECURSIVE PairBlocks_PerUnit(_, _, _, _, _)
PairBlocks_PerUnit(units, unit_idx, cumulative_turn, user_i, configs) ==
    IF unit_idx >= Len(units) THEN <<>>
    ELSE UnitBlocks(units[unit_idx + 1], unit_idx, 0, 1, user_i, configs)
             \o PairBlocks_PerUnit(units, unit_idx + 1, 1, user_i, configs)

\* the turn blocks of the units from unit_idx on
RECURSIVE PairBlocks(_, _, _, _, _)
PairBlocks(units, unit_idx, cumulative_turn, user_i, configs) ==
    IF unit_idx >= Len(units) THEN <<>>
    ELSE LET blocks == UnitBlocks(units[unit_idx + 1], unit_idx, 0, cumulative_turn,
                                  user_i, configs)
         IN  blocks \o PairBlocks(units, unit_idx + 1, cumulative_turn + Len(blocks),
                                  user_i, configs)

\* the page of conversation_to_html_generalized
PairPage(units, user_i, configs) ==
    [csv_header |-> CsvHeader(<<<<"Unit">>, <<"Turn">>>>, configs),
     blocks |-> PairBlocks(units, 0, 1, user_i, configs)]

\* the turn blocks of group_chat_to_html
GroupBlocks(group_turns, user, configs) ==
    [t \in 1..Len(group_turns) |->
        LET sender == Get(group_turns[t][1], "sender_alias", "")
        IN  [turn |-> t - 1,
             number |-> t,
             sender |-> sender,
             alignment |-> IF sender = user THEN "right" ELSE "left",
             messages |-> group_turns[t],
             controls |-> Controls(configs)]]

\* the page of group_chat_to_html
GroupPage(group_turns, user, configs) ==
    [csv_header |-> CsvHeader(<<<<"Turn">>, <<"Sender">>>>, configs),
     blocks |-> GroupBlocks(group_turns, user, configs)]

\* mutant: only the pair as given is looked up
HasConversation_AsGiven(ct, pair) == pair \in DOMAIN ct

\* the key under which conversation_to_html_generalized finds the
\* conversation of a pair, if it does
HasConversation(ct, pair) == pair \in DOMAIN ct \/ <<pair[2], pair[1]>> \in DOMAIN ct
ConversationKey(ct, pair) == IF pair \in DOMAIN ct THEN pair ELSE <<pair[2], pair[1]>>

(***************************************************************************)
(* Step 1 on a file that is not JSON, and Step 5 of the pairwise pipeline. *)
(* Position "done": Step 4 is finished (when no HTML is asked for, the     *)
(* function returns there); "returned": Step 5 is finished; "raised": an   *)
(* exception has left the function.                                        *)
(***************************************************************************)
\* Step 1, a file that exists and is not valid JSON: json.load raises, and
\* nothing catches the exception
ReadFileRaises ==
    /\ pc = "read_files"
    /\ file_idx <= Len(conti_chats)
    /\ conti_chats[file_idx].exists
    /\ ~conti_chats[file_idx].valid
    /\ pc' = "raised"
    /\ UNCHANGED <<user_match_list, conti_chats, file_idx, alias_mapping,
                   structured_messages, initial_count, processed_count, mismatch,
                   conversation_segments, conversation_turns>>
    /\ UNCHANGED <<htmlVars, dropdown_configs, groupVars, cleanVars>>
    /\ UNCHANGED <<batchVars, scriptVars, alias_warning, file_warnings>>

\* if output_users and dropdown_configs
HtmlRequested == output_users # <<>> /\ dropdown_configs # <<>>

\* Step 5, a pair with a conversation: the page is written
HtmlForPair ==
    /\ pc \in {"done", "generate_html"}
    /\ HtmlRequested
    /\ html_idx <= Len(output_users)
    /\ HasConversation(conversation_turns, output_users[html_idx])
    /\ LET pair == output_users[html_idx]
           units == conversation_turns[ConversationKey(conversation_turns, pair)]
       IN  /\ dropdown_configs' = AllWithDefaults(dropdown_configs)
           /\ html_files' = Put(html_files, pair, PairPage(units, pair[1], dropdown_configs'))
    /\ html_idx' = html_idx + 1
    /\ pc' = IF html_idx' > Len(output_users) THEN "returned" ELSE "generate_html"
    /\ UNCHANGED <<user_match_list, conti_chats, file_idx, alias_mapping,
                   structured_messages, initial_count, processed_count, mismatch,
                   conversation_segments, conversation_turns, output_users, html_log>>
    /\ UNCHANGED <<groupVars, cleanVars>>
    /\ UNCHANGED <<batchVars, scriptVars, alias_warning, file_warnings>>

\* Step 5, a pair without a conversation: a message is printed, no page
HtmlNoConversation ==
    /\ pc \in {"done", "generate_html"}
    /\ HtmlRequested
    /\ html_idx <= Len(output_users)
    /\ ~HasConversation(conversation_turns, output_users[html_idx])
    /\ dropdown_configs' = AllWithDefaults(dropdown_configs)
    /\ html_log' = Append(html_log, output_users[html_idx])
    /\ html_idx' = html_idx + 1
    /\ pc' = IF html_idx' > Len(output_users) THEN "returned" ELSE "generate_html"
    /\ UNCHANGED <<user_match_list, conti_chats, file_idx, alias_mapping,
                   structured_messages, initial_count, processed_count, mismatch,
                   conversation_segments, conversation_turns, output_users, html_files>>
    /\ UNCHANGED <<groupVars, cleanVars>>
    /\ UNCHANGED <<batchVars, scriptVars, alias_warning, file_warnings>>

(***************************************************************************)
(* process_group_chat: parse, main user, group_chat_to_html.               *)
(***************************************************************************)
\* [msg for msg in messages if msg.get('chat_id') == chat_id]
ChatMessages(msgs, id) == SelectSeq(msgs, LAMBDA msg : Get(msg, "chat_id", None) = id)

\* the senders of the messages that have one, in the order of their first
\* message (the order of the keys of user_message_counts)
RECURSIVE SendersInOrder(_)
SendersInOrder(msgs) ==
    IF msgs = <<>> THEN <<>>
    ELSE LET before == SendersInOrder(SubSeq(msgs, 1, Len(msgs) - 1))
             last == msgs[Len(msgs)]
         IN  IF "sender_alias" \notin DOMAIN last
                \/ \E i \in 1..Len(before) : before[i] = last.sender_alias
             THEN before
             ELSE Append(before, last.sender_alias)

\* user_message_counts[sender]
MessageCount(msgs, sender) ==
    Cardinality({i \in 1..Len(msgs) :
                    "sender_alias" \in DOMAIN msgs[i] /\ msgs[i].sender_alias = sender})

\* find_most_active_user: max(...) gives the first of the senders with the
\* highest count
FindMostActiveUser(msgs, id) ==
    LET chat == ChatMessages(msgs, id)
        senders == SendersInOrder(chat)
    IN  IF chat = <<>> \/ senders = <<>> THEN ""
        ELSE LET best == {i \in 1..Len(senders) :
                             \A j \in 1..Len(senders) :
                                 MessageCount(chat, senders[j])
                                     <= MessageCount(chat, senders[i])}
             IN  senders[CHOOSE i \in best : \A j \in best : i <= j]

\* msg is put behind the last message whose timestamp is not later than its own
RECURSIVE InsertChatByTime(_, _)
InsertChatByTime(sorted, msg) ==
    IF sorted = <<>> THEN <<msg>>
    ELSE IF Get(sorted[Len(sorted)], "timestamp", DatetimeMin)
                <= Get(msg, "timestamp", DatetimeMin)
         THEN Append(sorted, msg)
         ELSE Append(InsertChatByTime(SubSeq(sorted, 1, Len(sorted) - 1), msg),
                     sorted[Len(sorted)])

RECURSIVE SortChatFrom(_, _)
SortChatFrom(sorted, rest) ==
    IF rest = <<>> THEN sorted
    ELSE SortChatFrom(InsertChatByTime(sorted, Head(rest)), Tail(rest))

\* mutant: the chat messages are left in file order
SortChatByTime_Unsorted(msgs) == msgs

\* chat_messages.sort(key=lambda x: x.get('timestamp', datetime.min))
SortChatByTime(msgs) == SortChatFrom(<<>>, msgs)

\* parse_group_chat on a file that holds a JSON array; process_group_chat
\* returns when the array is empty
ParseGroupChat ==
    /\ gpc = "parse"
    /\ file_path.exists /\ file_path.valid
    /\ messages' = file_path.items
    /\ gpc' = IF messages' = <<>> THEN "no_messages_in_file" ELSE "configs"
    /\ UNCHANGED <<file_path, main_user, chat_id, chat_messages, turns, group_html>>
    /\ UNCHANGED <<convoVars, cleanVars, dropdown_configs>>
    /\ UNCHANGED <<batchVars, scriptVars, alias_warning, file_warnings>>

\* parse_group_chat on a path that does not exist or a file that is not
\* JSON: open or json.load raises, and nothing catches the exception
ParseGroupChatRaises ==
    /\ gpc = "parse"
    /\ ~file_path.exists \/ ~file_path.valid
    /\ gpc' = "raised"
    /\ UNCHANGED <<file_path, main_user, messages, chat_id, chat_messages, turns,
                   group_html>>
    /\ UNCHANGED <<convoVars, cleanVars, dropdown_configs>>
    /\ UNCHANGED <<batchVars, scriptVars, alias_warning, file_warnings>>

\* get_sample_configs(): a dependent dropdown and a flat one
get_sample_configs ==
    <<[name |-> "intention", label |-> "Intention",
       options |-> [type |-> "dict", keys |-> <<"Personal", "Work">>]],
      [name |-> "tone", label |-> "Tone",
       options |-> [type |-> "list",
                    keys |-> <<"Happy", "Sad", "Urgent", "Casual", "Formal">>]]>>

\* dropdown_configs=None, the default of the parameter of process_group_chat:
\* written as a list whose one entry is None, so that it stands beside the
\* lists of configurations
ConfigsNone == <<[name |-> None]>>

\* if dropdown_configs is None: dropdown_configs = get_sample_configs()
UseSampleConfigs ==
    /\ gpc = "configs"
    /\ dropdown_configs' =
           IF dropdown_configs = ConfigsNone THEN get_sample_configs
           ELSE dropdown_configs
    /\ gpc' = "main_user"
    /\ UNCHANGED <<file_path, main_user, messages, chat_id, chat_messages, turns,
                   group_html>>
    /\ UNCHANGED <<convoVars, cleanVars>>
    /\ UNCHANGED <<batchVars, scriptVars, alias_warning, file_warnings>>

\* if not main_user: the most active user of the chat, else the first sender
\* of the chat
ChooseMainUser ==
    /\ gpc = "main_user"
    /\ main_user' =
           IF main_user \in {None, ""}
           THEN LET found == FindMostActiveUser(messages, chat_id)
                    chat == ChatMessages(messages, chat_id)
                IN  IF found # "" THEN found
                    ELSE IF chat # <<>> THEN Get(chat[1], "sender_alias", "")
                    ELSE found
           ELSE main_user
    /\ gpc' = "html"
    /\ UNCHANGED <<file_path, messages, chat_id, chat_messages, turns, group_html>>
    /\ UNCHANGED <<convoVars, cleanVars, dropdown_configs>>
    /\ UNCHANGED <<batchVars, scriptVars, alias_warning, file_warnings>>

\* group_chat_to_html up to the sort: the defaults of the configurations,
\* the messages of the chat, sorted by time
FilterAndSort ==
    /\ gpc = "html"
    /\ dropdown_configs' = AllWithDefaults(dropdown_configs)
    /\ chat_messages' = SortChatByTime(ChatMessages(messages, chat_id))
    /\ gpc' = "segment"
    /\ UNCHANGED <<file_path, main_user, messages, chat_id, turns, group_html>>
    /\ UNCHANGED <<convoVars, cleanVars>>
    /\ UNCHANGED <<batchVars, scriptVars, alias_warning, file_warnings>>

\* group_chat_to_html after the turns: the page is written
WriteGroupHtml ==
    /\ gpc = "done"
    /\ group_html' = [written |-> TRUE,
                      page |-> GroupPage(turns, main_user, dropdown_configs)]
    /\ gpc' = "written"
    /\ UNCHANGED <<file_path, main_user, messages, chat_id, chat_messages, turns>>
    /\ UNCHANGED <<convoVars, cleanVars, dropdown_configs>>
    /\ UNCHANGED <<batchVars, scriptVars, alias_warning, file_warnings>>

(***************************************************************************)
(* The segmenters on sorted conversations: the pairwise pipeline after its *)
(* sort (one conversation between alice and bob), the group-chat pipeline  *)
(* after its sort (the same messages as dicts of one chat).                *)
(***************************************************************************)
Times == {-60, 0, 60, 1800, 3600, 3660, 3700}
Participants == {"alice", "bob"}
Other(p) == IF p = "alice" THEN "bob" ELSE "alice"

RECURSIVE SortedTimeSeqs(_)
SortedTimeSeqs(n) ==
    IF n = 0 THEN {<<>>}
    ELSE UNION {{Append(s, t) : t \in {u \in Times : s = <<>> \/ u >= s[Len(s)]}} :
                   s \in SortedTimeSeqs(n - 1)}

\* message i of a conversation: the tuple the pairwise pipeline stores
SortedConvs(n) ==
    {[i \in 1..n |-> <<ts[i], snd[i], Other(snd[i]), i>>] :
        ts \in SortedTimeSeqs(n), snd \in [1..n -> Participants]}

\* the item of the chat log a stored message comes from
AsItem(m) == [ts |-> m[1], from |-> m[2], to |-> m[3], body |-> m[4]]

\* the same message as the group-chat pipeline reads it
AsChatMessage(m) ==
    [chat_id |-> "!room", sender_alias |-> m[2], timestamp |-> m[1], message |-> m[4]]

SegInit ==
    \E n \in 0..MaxTurnMsgs : \E conv \in SortedConvs(n) :
        /\ pc = "segment_by_date"
        /\ user_match_list = [readable |-> TRUE, entries |-> <<>>]
        /\ conti_chats = <<LogFile([i \in 1..n |-> AsItem(conv[i])])>>
        /\ file_idx = 2
        /\ alias_mapping = EmptyDict
        /\ structured_messages =
               IF conv = <<>> THEN EmptyDict
               ELSE [a \in {"alice"} |-> [b \in {"bob"} |-> conv]]
        /\ initial_count = n
        /\ processed_count = n
        /\ mismatch = FALSE
        /\ conversation_segments = EmptyDict
        /\ conversation_turns = EmptyDict
        /\ dropdown_configs = <<>>
        /\ output_users = <<>>
        /\ html_idx = 1
        /\ html_files = EmptyDict
        /\ html_log = <<>>
        /\ gpc = "segment"
        /\ file_path = LogFile([i \in 1..n |-> AsChatMessage(conv[i])])
        /\ main_user = "alice"
        /\ messages = [i \in 1..n |-> AsChatMessage(conv[i])]
        /\ chat_id = "!room"
        /\ group_html = NoGroupHtml
        /\ chat_messages = [i \in 1..n |-> AsChatMessage(conv[i])]
        /\ turns = <<>>
        /\ cpc = "idle"
        /\ input_file = NoInputFile
        /\ output_file = None
        /\ data = <<>>
        /\ cleaned_data = <<>>
        /\ saved = NothingSaved
        /\ result = <<>>
        /\ BatchIdle /\ ScriptIdle /\ alias_warning = FALSE /\ file_warnings = <<>>

SegNext == SegmentByDate \/ SplitIntoTurns \/ GroupNoMessages \/ GroupIntoTurns

SegSpec == SegInit /\ [][SegNext]_vars


(***************************************************************************)
(* The whole pairwise pipeline, from the files to the turns.               *)
(***************************************************************************)
RawNames == {"Robert", "alice", "bob"}
LogTimes == {-60, 60}

\* n items; the body of an item is its place in the reading order
LogItems(n) ==
    {[i \in 1..n |-> [ts |-> f[i][1], from |-> f[i][2], to |-> f[i][3], body |-> i]] :
        f \in [1..n -> LogTimes \X RawNames \X RawNames]}

\* the items in two files, with or without a path that does not exist
FileLayouts(items) ==
    LET h == (Len(items) + 1) \div 2
        first == LogFile(SubSeq(items, 1, h))
        second == LogFile(SubSeq(items, h + 1, Len(items)))
    IN  {<<first, second>>, <<first, MissingFile, second>>}

UnreadableAliasFile == [readable |-> FALSE, entries |-> <<>>]
SampleAliasFiles ==
    {UnreadableAliasFile,
     [readable |-> TRUE, entries |-> <<>>],
     [readable |-> TRUE,
      entries |-> <<[primary |-> "Robert", aliases |-> <<"bob">>]>>]}

\* the state before Step 0, for an alias file, chat-log files, dropdown
\* configurations and the pairs HTML is asked for
StartWith(alias_file, files, configs, users) ==
    /\ pc = "load_aliases"
    /\ dropdown_configs = configs
    /\ output_users = users
    /\ user_match_list = alias_file
    /\ conti_chats = files
    /\ file_idx = 1
    /\ alias_mapping = EmptyDict
    /\ structured_messages = EmptyDict
    /\ initial_count = 0
    /\ processed_count = 0
    /\ mismatch = FALSE
    /\ conversation_segments = EmptyDict
    /\ conversation_turns = EmptyDict
    /\ html_idx = 1
    /\ html_files = EmptyDict
    /\ html_log = <<>>
    /\ gpc = "idle"
    /\ file_path = MissingFile
    /\ main_user = None
    /\ messages = <<>>
    /\ chat_id = "!room"
    /\ group_html = NoGroupHtml
    /\ chat_messages = <<>>
    /\ turns = <<>>
    /\ cpc = "idle"
    /\ input_file = NoInputFile
    /\ output_file = None
    /\ data = <<>>
    /\ cleaned_data = <<>>
    /\ saved = NothingSaved
    /\ result = <<>>
    /\ BatchIdle /\ ScriptIdle /\ alias_warning = FALSE /\ file_warnings = <<>>

\* a run that asks for no HTML
Start(alias_file, files) == StartWith(alias_file, files, <<>>, <<>>)

Init ==
    \E alias_file \in SampleAliasFiles : \E n \in 0..MaxLogMsgs :
        \E items \in LogItems(n) : \E files \in FileLayouts(items) :
            Start(alias_file, files)

Next ==
    \/ LoadAliases
    \/ ReadFile
    \/ SkipMissingFile
    \/ CountAndSort
    \/ SegmentByDate
    \/ SplitIntoTurns

Spec == Init /\ [][Next]_vars

(***************************************************************************)
(* The pairwise pipeline on every small alias file.                        *)
(***************************************************************************)
AliasLists == UNION {[1..j -> {"Robert", "bob"}] : j \in 0..MaxAliasesPerEntry}

\* an entry has a primary and aliases, or (an entry the code passes over) no
\* primary
AliasEntries ==
    {[primary |-> p, aliases |-> a] : p \in {"Robert", "alice"}, a \in AliasLists}
    \cup {[aliases |-> a] : a \in AliasLists}

AliasFiles ==
    {UnreadableAliasFile} \cup
    {[readable |-> TRUE, entries |-> e] :
        e \in UNION {[1..n -> AliasEntries] : n \in 0..MaxAliasEntries}}

AliasInit ==
    \E alias_file \in AliasFiles : \E sender \in RawNames :
        Start(alias_file,
              <<MissingFile,
                LogFile(<<[ts |-> 0, from |-> sender, to |-> "alice", body |-> 1]>>)>>)

AliasSpec == AliasInit /\ [][Next]_vars

(***************************************************************************)
(* Whole runs: the pairwise pipeline with files that are not JSON and with *)
(* HTML asked for, or process_group_chat on a group-chat file.             *)
(***************************************************************************)
\* a dependent dropdown, a flat dropdown, a dependent dropdown that brings its
\* own button text and CSV column
SampleConfigs ==
    {[name |-> "intention", label |-> "Intention",
      options |-> [type |-> "dict", keys |-> <<"Personal", "Work">>]],
     [name |-> "tone", label |-> "Tone",
      options |-> [type |-> "list", keys |-> <<"Happy", "Sad">>]],
     [name |-> "role", label |-> "Role", button_text |-> <<"Set role">>,
      csv_column |-> "RoleColumn", options |-> [type |-> "dict", keys |-> <<"Lead">>]]}

ConfigLists == UNION {[1..n -> SampleConfigs] : n \in 0..MaxConfigs}


\* bob is an alias of Robert, so nobody has a conversation with bob
SamplePairs == {<<"Robert", "alice">>, <<"alice", "Robert">>, <<"alice", "bob">>}
PairLists == UNION {[1..n -> SamplePairs] : n \in 0..MaxPairs}

\* chat logs: nothing; one message; a conversation of bob (Robert) and alice
\* over two days, read out of order
SampleLogs ==
    {<<>>,
     <<[ts |-> 0, from |-> "alice", to |-> "bob", body |-> 1]>>,
     <<[ts |-> 86460, from |-> "alice", to |-> "Robert", body |-> 1],
       [ts |-> 60, from |-> "bob", to |-> "alice", body |-> 2],
       [ts |-> 0, from |-> "bob", to |-> "alice", body |-> 3],
       [ts |-> 3600, from |-> "Robert", to |-> "alice", body |-> 4],
       [ts |-> 3660, from |-> "alice", to |-> "bob", body |-> 5]>>}

\* the log in one file, alone or next to a file that is not JSON or a path
\* that does not exist
RunFiles(items) ==
    {<<LogFile(items)>>,
     <<LogFile(items), MalformedFile>>,
     <<MalformedFile, LogFile(items)>>,
     <<MissingFile, LogFile(items)>>}

\* a conversation of alice and bob with its messages in every order of their
\* times, in two files
ShuffledLogs ==
    {[i \in 1..MaxShuffled |->
         [ts |-> f[i],
          from |-> IF i % 2 = 1 THEN "alice" ELSE "bob",
          to |-> IF i % 2 = 1 THEN "bob" ELSE "alice",
          body |-> i]] : f \in [1..MaxShuffled -> {0, 60, 3600}]}

\* the first message in one file and the others in another, in both orders
ShuffledFiles(items) ==
    {<<LogFile(SubSeq(items, 1, 1)), LogFile(SubSeq(items, 2, Len(items)))>>,
     <<LogFile(SubSeq(items, 2, Len(items))), LogFile(SubSeq(items, 1, 1))>>}

BobIsRobert ==
    [readable |-> TRUE, entries |-> <<[primary |-> "Robert", aliases |-> <<"bob">>]>>]

\* the messages of group-chat files: two chats, a message without sender, a
\* message without timestamp, a message whose sender is the empty string
SampleChatMessages ==
    {[chat_id |-> "!room", sender_alias |-> "alice", timestamp |-> 60],
     [chat_id |-> "!room", sender_alias |-> "", timestamp |-> 0],
     [chat_id |-> "!room", sender_alias |-> "bob", timestamp |-> 0],
     [chat_id |-> "!room", sender_alias |-> "alice", timestamp |-> 3600],
     [chat_id |-> "!other", sender_alias |-> "bob", timestamp |-> 60],
     [chat_id |-> "!room", timestamp |-> 60],
     [chat_id |-> "!room", sender_alias |-> "alice"]}

\* n messages; the text of a message is its place in the file
ChatLogs(n) ==
    {[i \in 1..n |-> Put(f[i], "message", i)] : f \in [1..n -> SampleChatMessages]}

GroupFiles ==
    {MissingFile, MalformedFile}
    \cup {LogFile(msgs) : msgs \in UNION {ChatLogs(n) : n \in 0..MaxGroupMsgs}}

\* a long group chat for the pages
LongChat ==
    <<[chat_id |-> "!room", sender_alias |-> "alice", timestamp |-> 3600, message |-> 1],
      [chat_id |-> "!room", sender_alias |-> "bob", timestamp |-> 0, message |-> 2],
      [chat_id |-> "!other", sender_alias |-> "bob", timestamp |-> 30, message |-> 3],
      [chat_id |-> "!room", sender_alias |-> "bob", timestamp |-> 60, message |-> 4],
      [chat_id |-> "!room", sender_alias |-> "alice", timestamp |-> 3660, message |-> 5]>>

\* the state before process_group_chat, the pairwise pipeline not running
GroupStart(file, id, user, configs) ==
    /\ pc = "idle"
    /\ user_match_list = UnreadableAliasFile
    /\ conti_chats = <<>>
    /\ file_idx = 1
    /\ alias_mapping = EmptyDict
    /\ structured_messages = EmptyDict
    /\ initial_count = 0
    /\ processed_count = 0
    /\ mismatch = FALSE
    /\ conversation_segments = EmptyDict
    /\ conversation_turns = EmptyDict
    /\ dropdown_configs = configs
    /\ output_users = <<>>
    /\ html_idx = 1
    /\ html_files = EmptyDict
    /\ html_log = <<>>
    /\ gpc = "parse"
    /\ file_path = file
    /\ main_user = user
    /\ messages = <<>>
    /\ chat_id = id
    /\ chat_messages = <<>>
    /\ turns = <<>>
    /\ group_html = NoGroupHtml
    /\ cpc = "idle"
    /\ input_file = NoInputFile
    /\ output_file = None
    /\ data = <<>>
    /\ cleaned_data = <<>>
    /\ saved = NothingSaved
    /\ result = <<>>
    /\ BatchIdle /\ ScriptIdle /\ alias_warning = FALSE /\ file_warnings = <<>>

(***************************************************************************)
(* coding_files_generator.py: the statements of the module, in the order   *)
(* of the file.  script_globals is the namespace the file is executed in.  *)
(***************************************************************************)
\* options_dd1, options_dd2, options_dd3
options_dd1 ==
    <<"PERSONAL", "WORK Coordination", "WORK Help & Advice", "WORK Information Flow",
      "Small Talk", "Ping", "Humor", "SHOW ENGAGEMENT (REACTION)", "Other">>
options_dd2 ==
    <<"Excitement", "Gratitude", "Apology", "Frustration", "Politeness", "Hedging",
      "Support", "Command">>
options_dd3 ==
    <<"Formal Addressing", "Informal Addressing", "Relative Role (Above)",
      "Relative Role (Below)", "Real Name">>

\* the three categories of controls of every turn block
ScriptControls ==
    <<[cat |-> 1, class |-> "category-group", label |-> "Intention",
       options |-> GenerateOptions(options_dd1), detailed |-> TRUE, other |-> TRUE,
       button_text |-> <<"Add Intention">>],
      [cat |-> 2, class |-> "dropdown-group-container", label |-> "Tone/Emotion",
       options |-> GenerateOptions(options_dd2), detailed |-> FALSE, other |-> FALSE,
       button_text |-> <<"Add Tone">>],
      [cat |-> 3, class |-> "dropdown-group-container", label |-> "Role Indicators",
       options |-> GenerateOptions(options_dd3), detailed |-> FALSE, other |-> FALSE,
       button_text |-> <<"Add Role">>]>>

\* the turn blocks of the turns of a unit from turn_idx on; an empty turn is
\* passed over and takes no number
RECURSIVE ScriptUnitBlocks(_, _, _, _, _)
ScriptUnitBlocks(unit, unit_idx, turn_idx, cumulative_turn, user_i) ==
    IF turn_idx >= Len(unit) THEN <<>>
    ELSE LET turn == unit[turn_idx + 1]
         IN  IF turn = <<>>
             THEN ScriptUnitBlocks(unit, unit_idx, turn_idx + 1, cumulative_turn, user_i)
             ELSE <<[unit |-> unit_idx,
                     turn |-> turn_idx,
                     number |-> cumulative_turn,
                     sender |-> turn[1][2],
                     alignment |-> IF turn[1][2] = user_i THEN "right" ELSE "left",
                     messages |-> turn,
                     controls |-> ScriptControls]>>
                  \o ScriptUnitBlocks(unit, unit_idx, turn_idx + 1, cumulative_turn + 1,
                                      user_i)

\* the turn blocks of the units from unit_idx on
RECURSIVE ScriptBlocks(_, _, _, _)
ScriptBlocks(units, unit_idx, cumulative_turn, user_i) ==
    IF unit_idx >= Len(units) THEN <<>>
    ELSE LET blocks == ScriptUnitBlocks(units[unit_idx + 1], unit_idx, 0, cumulative_turn,
                                        user_i)
         IN  blocks \o ScriptBlocks(units, unit_idx + 1, cumulative_turn + Len(blocks),
                                    user_i)

\* the page of conversation_to_html
ScriptPage(units, user_i) ==
    [csv_header |-> <<<<"Unit">>, <<"Turn">>, <<"Intention">>, <<"Detailed">>, <<"Tone">>,
                      <<"Role Indicators">>>>,
     blocks |-> ScriptBlocks(units, 0, 1, user_i)]

\* the imports, the def and the three assignments before the call
ScriptDefinitions ==
    /\ spc = "start"
    /\ script_globals' =
           Put(Put(Put(Put(Put(Put(script_globals, "json", "<module>"),
                               "pd", "<module>"),
                           "conversation_to_html", "<function>"),
                       "user1", "bentley"),
                   "user2", "mavemat"),
               "filename", "conversation_history_bentley_mavemat.html")
    /\ spc' = "call"
    /\ UNCHANGED <<pickle_file, script_html>>
    /\ UNCHANGED <<convoVars, groupVars, cleanVars, dropdown_configs, batchVars,
                   alias_warning, file_warnings>>

\* conversation_to_html(conversation_turns, user1, user2, filename), the name
\* conversation_turns being bound: the page is written, or "No conversation
\* found" is printed
ScriptCall ==
    /\ spc = "call"
    /\ "conversation_turns" \in DOMAIN script_globals
    /\ LET ct == script_globals["conversation_turns"]
           user_i == script_globals["user1"]
           user_j == script_globals["user2"]
       IN  script_html' =
               IF HasConversation(ct, <<user_i, user_j>>)
               THEN Put(script_html, script_globals["filename"],
                        ScriptPage(ct[ConversationKey(ct, <<user_i, user_j>>)], user_i))
               ELSE script_html
    /\ spc' = "load"
    /\ UNCHANGED <<script_globals, pickle_file>>
    /\ UNCHANGED <<convoVars, groupVars, cleanVars, dropdown_configs, batchVars,
                   alias_warning, file_warnings>>

\* the same statement, the name conversation_turns not being bound:
\* NameError, the script ends
ScriptCallRaises ==
    /\ spc = "call"
    /\ "conversation_turns" \notin DOMAIN script_globals
    /\ spc' = "name_error"
    /\ UNCHANGED <<script_globals, pickle_file, script_html>>
    /\ UNCHANGED <<convoVars, groupVars, cleanVars, dropdown_configs, batchVars,
                   alias_warning, file_warnings>>

\* def read_pickle, conversation_turns_file and conversation_turns =
\* read_pickle(conversation_turns_file), the file being there
ScriptLoadPickle ==
    /\ spc = "load"
    /\ pickle_file.exists
    /\ script_globals' =
           Put(Put(Put(script_globals, "read_pickle", "<function>"),
                   "conversation_turns_file", "Qualitative_Coding/conversation_turns.pkl"),
               "conversation_turns", pickle_file.value)
    /\ spc' = "finished"
    /\ UNCHANGED <<pickle_file, script_html>>
    /\ UNCHANGED <<convoVars, groupVars, cleanVars, dropdown_configs, batchVars,
                   alias_warning, file_warnings>>

\* the same statements, the file not being there: FileNotFoundError
ScriptLoadRaises ==
    /\ spc = "load"
    /\ ~pickle_file.exists
    /\ script_globals' =
           Put(Put(script_globals, "read_pickle", "<function>"),
               "conversation_turns_file", "Qualitative_Coding/conversation_turns.pkl")
    /\ spc' = "file_not_found"
    /\ UNCHANGED <<pickle_file, script_html>>
    /\ UNCHANGED <<convoVars, groupVars, cleanVars, dropdown_configs, batchVars,
                   alias_warning, file_warnings>>

\* conversation_turns dictionaries: none; bentley and mavemat over two days;
\* the same under the key in the other order; with an empty turn; another
\* pair only
BentleyTurns ==
    <<<<<<<<0, "bentley", "mavemat", 1>>>>,
        <<<<60, "mavemat", "bentley", 2>>, <<120, "mavemat", "bentley", 3>>>>>>,
      <<<<<<86460, "bentley", "mavemat", 4>>>>>>>>
SampleTurnDicts ==
    {EmptyDict,
     [k \in {<<"bentley", "mavemat">>} |-> BentleyTurns],
     [k \in {<<"mavemat", "bentley">>} |-> BentleyTurns],
     [k \in {<<"bentley", "mavemat">>} |->
         <<<<<<<<0, "bentley", "mavemat", 1>>>>, <<>>,
             <<<<60, "mavemat", "bentley", 2>>>>>>>>],
     [k \in {<<"alice", "bob">>} |-> <<<<<<<<0, "alice", "bob", 1>>>>>>>>]}

\* the namespace the file is executed in: a new one, or one in which
\* conversation_turns is bound already (the file run inside a session)
SampleNamespaces ==
    {EmptyDict} \cup {[n \in {"conversation_turns"} |-> ct] : ct \in SampleTurnDicts}

SamplePickleFiles ==
    {[exists |-> FALSE, value |-> EmptyDict]}
    \cup {[exists |-> TRUE, value |-> ct] : ct \in SampleTurnDicts}

\* the state before the first statement of the file
ScriptStart(namespace, file) ==
    /\ spc = "start"
    /\ script_globals = namespace
    /\ pickle_file = file
    /\ script_html = EmptyDict
    /\ pc = "idle"
    /\ user_match_list = UnreadableAliasFile
    /\ conti_chats = <<>>
    /\ file_idx = 1
    /\ alias_mapping = EmptyDict
    /\ structured_messages = EmptyDict
    /\ initial_count = 0
    /\ processed_count = 0
    /\ mismatch = FALSE
    /\ conversation_segments = EmptyDict
    /\ conversation_turns = EmptyDict
    /\ dropdown_configs = <<>>
    /\ output_users = <<>>
    /\ html_idx = 1
    /\ html_files = EmptyDict
    /\ html_log = <<>>
    /\ gpc = "idle"
    /\ file_path = MissingFile
    /\ main_user = None
    /\ messages = <<>>
    /\ chat_id = "!room"
    /\ group_html = NoGroupHtml
    /\ chat_messages = <<>>
    /\ turns = <<>>
    /\ cpc = "idle"
    /\ input_file = NoInputFile
    /\ output_file = None
    /\ data = <<>>
    /\ cleaned_data = <<>>
    /\ saved = NothingSaved
    /\ result = <<>>
    /\ BatchIdle
    /\ alias_warning = FALSE /\ file_warnings = <<>>

RunInit ==
    \/ \E items \in SampleLogs : \E files \in RunFiles(items) :
          \E users \in {<<>>, <<<<"alice", "bob">>, <<"alice", "Robert">>>>} :
              StartWith(BobIsRobert, files, get_sample_configs, users)
    \/ \E configs \in ConfigLists : \E users \in PairLists :
          \E items \in SampleLogs : StartWith(BobIsRobert, <<LogFile(items)>>, configs, users)
    \/ \E items \in ShuffledLogs : \E files \in ShuffledFiles(items) :
          StartWith(BobIsRobert, files, <<>>, <<>>)
    \/ \E file \in GroupFiles : \E user \in {None, "", "bob"} :
          GroupStart(file, "!room", user, ConfigsNone)
    \/ \E configs \in ConfigLists \cup {ConfigsNone} : \E id \in {"!room", "!nobody"} :
          GroupStart(LogFile(LongChat), id, "alice", configs)
    \/ \E namespace \in SampleNamespaces : \E file \in SamplePickleFiles :
          ScriptStart(namespace, file)

RunNext ==
    \/ LoadAliases
    \/ ReadFile
    \/ SkipMissingFile
    \/ ReadFileRaises
    \/ CountAndSort
    \/ SegmentByDate
    \/ SplitIntoTurns
    \/ HtmlForPair
    \/ HtmlNoConversation
    \/ ParseGroupChat
    \/ ParseGroupChatRaises
    \/ UseSampleConfigs
    \/ ChooseMainUser
    \/ FilterAndSort
    \/ GroupNoMessages
    \/ GroupIntoTurns
    \/ WriteGroupHtml
    \/ ScriptDefinitions
    \/ ScriptCall
    \/ ScriptCallRaises
    \/ ScriptLoadPickle
    \/ ScriptLoadRaises

RunSpec == RunInit /\ [][RunNext]_vars

(***************************************************************************)
(* blackbasta_json_cleaner.py: identifier cleaning.  An identifier is a    *)
(* sequence of characters.                                                 *)
(***************************************************************************)
Quote == "\""
\* a character outside ASCII is written by its code point, "U+" and four to
\* six hexadecimal digits: "U+00E9" is e acute, "U+0663" the Arabic-Indic
\* digit three
IsCodePoint(c) == Len(c) >= 6 /\ SubSeq(c, 1, 2) = "U+"

HexDigit(h) ==
    CASE h = "0" -> 0 [] h = "1" -> 1 [] h = "2" -> 2 [] h = "3" -> 3
      [] h = "4" -> 4 [] h = "5" -> 5 [] h = "6" -> 6 [] h = "7" -> 7
      [] h = "8" -> 8 [] h = "9" -> 9 [] h = "A" -> 10 [] h = "B" -> 11
      [] h = "C" -> 12 [] h = "D" -> 13 [] h = "E" -> 14 [] h = "F" -> 15

\* the number written by the hexadecimal digits of c up to place i
RECURSIVE HexNumber(_, _)
HexNumber(c, i) ==
    IF i <= 2 THEN 0
    ELSE HexNumber(c, i - 1) * 16 + HexDigit(SubSeq(c, i, i))

CodePoint(c) == HexNumber(c, Len(c))

InRanges(n, ranges) ==
    \E i \in 1..Len(ranges) : ranges[i][1] <= n /\ n <= ranges[i][2]

\* the code points above 127 that [\w\d] matches in a str pattern (the
\* alphanumeric characters of Unicode 14.0.0), and those that \d matches (the
\* decimal digits), as ranges
WordRanges ==
    <<<<170, 170>>, <<178, 179>>, <<181, 181>>, <<185, 186>>, <<188, 190>>,
      <<192, 214>>, <<216, 246>>, <<248, 705>>, <<710, 721>>, <<736, 740>>,
      <<748, 748>>, <<750, 750>>, <<880, 884>>, <<886, 887>>, <<890, 893>>,
      <<895, 895>>, <<902, 902>>, <<904, 906>>, <<908, 908>>, <<910, 929>>,
      <<931, 1013>>, <<1015, 1153>>, <<1162, 1327>>, <<1329, 1366>>, <<1369, 1369>>,
      <<1376, 1416>>, <<1488, 1514>>, <<1519, 1522>>, <<1568, 1610>>, <<1632, 1641>>,
      <<1646, 1647>>, <<1649, 1747>>, <<1749, 1749>>, <<1765, 1766>>, <<1774, 1788>>,
      <<1791, 1791>>, <<1808, 1808>>, <<1810, 1839>>, <<1869, 1957>>, <<1969, 1969>>,
      <<1984, 2026>>, <<2036, 2037>>, <<2042, 2042>>, <<2048, 2069>>, <<2074, 2074>>,
      <<2084, 2084>>, <<2088, 2088>>, <<2112, 2136>>, <<2144, 2154>>, <<2160, 2183>>,
      <<2185, 2190>>, <<2208, 2249>>, <<2308, 2361>>, <<2365, 2365>>, <<2384, 2384>>,
      <<2392, 2401>>, <<2406, 2415>>, <<2417, 2432>>, <<2437, 2444>>, <<2447, 2448>>,
      <<2451, 2472>>, <<2474, 2480>>, <<2482, 2482>>, <<2486, 2489>>, <<2493, 2493>>,
      <<2510, 2510>>, <<2524, 2525>>, <<2527, 2529>>, <<2534, 2545>>, <<2548, 2553>>,
      <<2556, 2556>>, <<2565, 2570>>, <<2575, 2576>>, <<2579, 2600>>, <<2602, 2608>>,
      <<2610, 2611>>, <<2613, 2614>>, <<2616, 2617>>, <<2649, 2652>>, <<2654, 2654>>,
      <<2662, 2671>>, <<2674, 2676>>, <<2693, 2701>>, <<2703, 2705>>, <<2707, 2728>>,
      <<2730, 2736>>, <<2738, 2739>>, <<2741, 2745>>, <<2749, 2749>>, <<2768, 2768>>,
      <<2784, 2785>>, <<2790, 2799>>, <<2809, 2809>>, <<2821, 2828>>, <<2831, 2832>>,
      <<2835, 2856>>, <<2858, 2864>>, <<2866, 2867>>, <<2869, 2873>>, <<2877, 2877>>,
      <<2908, 2909>>, <<2911, 2913>>, <<2918, 2927>>, <<2929, 2935>>, <<2947, 2947>>,
      <<2949, 2954>>, <<2958, 2960>>, <<2962, 2965>>, <<2969, 2970>>, <<2972, 2972>>,
      <<2974, 2975>>, <<2979, 2980>>, <<2984, 2986>>, <<2990, 3001>>, <<3024, 3024>>,
      <<3046, 3058>>, <<3077, 3084>>, <<3086, 3088>>, <<3090, 3112>>, <<3114, 3129>>,
      <<3133, 3133>>, <<3160, 3162>>, <<3165, 3165>>, <<3168, 3169>>, <<3174, 3183>>,
      <<3192, 3198>>, <<3200, 3200>>, <<3205, 3212>>, <<3214, 3216>>, <<3218, 3240>>,
      <<3242, 3251>>, <<3253, 3257>>, <<3261, 3261>>, <<3293, 3294>>, <<3296, 3297>>,
      <<3302, 3311>>, <<3313, 3314>>, <<3332, 3340>>, <<3342, 3344>>, <<3346, 3386>>,
      <<3389, 3389>>, <<3406, 3406>>, <<3412, 3414>>, <<3416, 3425>>, <<3430, 3448>>,
      <<3450, 3455>>, <<3461, 3478>>, <<3482, 3505>>, <<3507, 3515>>, <<3517, 3517>>,
      <<3520, 3526>>, <<3558, 3567>>, <<3585, 3632>>, <<3634, 3635>>, <<3648, 3654>>,
      <<3664, 3673>>, <<3713, 3714>>, <<3716, 3716>>, <<3718, 3722>>, <<3724, 3747>>,
      <<3749, 3749>>, <<3751, 3760>>, <<3762, 3763>>, <<3773, 3773>>, <<3776, 3780>>,
      <<3782, 3782>>, <<3792, 3801>>, <<3804, 3807>>, <<3840, 3840>>, <<3872, 3891>>,
      <<3904, 3911>>, <<3913, 3948>>, <<3976, 3980>>, <<4096, 4138>>, <<4159, 4169>>,
      <<4176, 4181>>, <<4186, 4189>>, <<4193, 4193>>, <<4197, 4198>>, <<4206, 4208>>,
      <<4213, 4225>>, <<4238, 4238>>, <<4240, 4249>>, <<4256, 4293>>, <<4295, 4295>>,
      <<4301, 4301>>, <<4304, 4346>>, <<4348, 4680>>, <<4682, 4685>>, <<4688, 4694>>,
      <<4696, 4696>>, <<4698, 4701>>, <<4704, 4744>>, <<4746, 4749>>, <<4752, 4784>>,
      <<4786, 4789>>, <<4792, 4798>>, <<4800, 4800>>, <<4802, 4805>>, <<4808, 4822>>,
      <<4824, 4880>>, <<4882, 4885>>, <<4888, 4954>>, <<4969, 4988>>, <<4992, 5007>>,
      <<5024, 5109>>, <<5112, 5117>>, <<5121, 5740>>, <<5743, 5759>>, <<5761, 5786>>,
      <<5792, 5866>>, <<5870, 5880>>, <<5888, 5905>>, <<5919, 5937>>, <<5952, 5969>>,
      <<5984, 5996>>, <<5998, 6000>>, <<6016, 6067>>, <<6103, 6103>>, <<6108, 6108>>,
      <<6112, 6121>>, <<6128, 6137>>, <<6160, 6169>>, <<6176, 6264>>, <<6272, 6276>>,
      <<6279, 6312>>, <<6314, 6314>>, <<6320, 6389>>, <<6400, 6430>>, <<6470, 6509>>,
      <<6512, 6516>>, <<6528, 6571>>, <<6576, 6601>>, <<6608, 6618>>, <<6656, 6678>>,
      <<6688, 6740>>, <<6784, 6793>>, <<6800, 6809>>, <<6823, 6823>>, <<6917, 6963>>,
      <<6981, 6988>>, <<6992, 7001>>, <<7043, 7072>>, <<7086, 7141>>, <<7168, 7203>>,
      <<7232, 7241>>, <<7245, 7293>>, <<7296, 7304>>, <<7312, 7354>>, <<7357, 7359>>,
      <<7401, 7404>>, <<7406, 7411>>, <<7413, 7414>>, <<7418, 7418>>, <<7424, 7615>>,
      <<7680, 7957>>, <<7960, 7965>>, <<7968, 8005>>, <<8008, 8013>>, <<8016, 8023>>,
      <<8025, 8025>>, <<8027, 8027>>, <<8029, 8029>>, <<8031, 8061>>, <<8064, 8116>>,
      <<8118, 8124>>, <<8126, 8126>>, <<8130, 8132>>, <<8134, 8140>>, <<8144, 8147>>,
      <<8150, 8155>>, <<8160, 8172>>, <<8178, 8180>>, <<8182, 8188>>, <<8304, 8305>>,
      <<8308, 8313>>, <<8319, 8329>>, <<8336, 8348>>, <<8450, 8450>>, <<8455, 8455>>,
      <<8458, 8467>>, <<8469, 8469>>, <<8473, 8477>>, <<8484, 8484>>, <<8486, 8486>>,
      <<8488, 8488>>, <<8490, 8493>>, <<8495, 8505>>, <<8508, 8511>>, <<8517, 8521>>,
      <<8526, 8526>>, <<8528, 8585>>, <<9312, 9371>>, <<9450, 9471>>, <<10102, 10131>>,
      <<11264, 11492>>, <<11499, 11502>>, <<11506, 11507>>, <<11517, 11517>>,
      <<11520, 11557>>, <<11559, 11559>>, <<11565, 11565>>, <<11568, 11623>>,
      <<11631, 11631>>, <<11648, 11670>>, <<11680, 11686>>, <<11688, 11694>>,
      <<11696, 11702>>, <<11704, 11710>>, <<11712, 11718>>, <<11720, 11726>>,
      <<11728, 11734>>, <<11736, 11742>>, <<11823, 11823>>, <<12293, 12295>>,
      <<12321, 12329>>, <<12337, 12341>>, <<12344, 12348>>, <<12353, 12438>>,
      <<12445, 12447>>, <<12449, 12538>>, <<12540, 12543>>, <<12549, 12591>>,
      <<12593, 12686>>, <<12690, 12693>>, <<12704, 12735>>, <<12784, 12799>>,
      <<12832, 12841>>, <<12872, 12879>>, <<12881, 12895>>, <<12928, 12937>>,
      <<12977, 12991>>, <<13312, 19903>>, <<19968, 42124>>, <<42192, 42237>>,
      <<42240, 42508>>, <<42512, 42539>>, <<42560, 42606>>, <<42623, 42653>>,
      <<42656, 42735>>, <<42775, 42783>>, <<42786, 42888>>, <<42891, 42954>>,
      <<42960, 42961>>, <<42963, 42963>>, <<42965, 42969>>, <<42994, 43009>>,
      <<43011, 43013>>, <<43015, 43018>>, <<43020, 43042>>, <<43056, 43061>>,
      <<43072, 43123>>, <<43138, 43187>>, <<43216, 43225>>, <<43250, 43255>>,
      <<43259, 43259>>, <<43261, 43262>>, <<43264, 43301>>, <<43312, 43334>>,
      <<43360, 43388>>, <<43396, 43442>>, <<43471, 43481>>, <<43488, 43492>>,
      <<43494, 43518>>, <<43520, 43560>>, <<43584, 43586>>, <<43588, 43595>>,
      <<43600, 43609>>, <<43616, 43638>>, <<43642, 43642>>, <<43646, 43695>>,
      <<43697, 43697>>, <<43701, 43702>>, <<43705, 43709>>, <<43712, 43712>>,
      <<43714, 43714>>, <<43739, 43741>>, <<43744, 43754>>, <<43762, 43764>>,
      <<43777, 43782>>, <<43785, 43790>>, <<43793, 43798>>, <<43808, 43814>>,
      <<43816, 43822>>, <<43824, 43866>>, <<43868, 43881>>, <<43888, 44002>>,
      <<44016, 44025>>, <<44032, 55203>>, <<55216, 55238>>, <<55243, 55291>>,
      <<63744, 64109>>, <<64112, 64217>>, <<64256, 64262>>, <<64275, 64279>>,
      <<64285, 64285>>, <<64287, 64296>>, <<64298, 64310>>, <<64312, 64316>>,
      <<64318, 64318>>, <<64320, 64321>>, <<64323, 64324>>, <<64326, 64433>>,
      <<64467, 64829>>, <<64848, 64911>>, <<64914, 64967>>, <<65008, 65019>>,
      <<65136, 65140>>, <<65142, 65276>>, <<65296, 65305>>, <<65313, 65338>>,
      <<65345, 65370>>, <<65382, 65470>>, <<65474, 65479>>, <<65482, 65487>>,
      <<65490, 65495>>, <<65498, 65500>>, <<65536, 65547>>, <<65549, 65574>>,
      <<65576, 65594>>, <<65596, 65597>>, <<65599, 65613>>, <<65616, 65629>>,
      <<65664, 65786>>, <<65799, 65843>>, <<65856, 65912>>, <<65930, 65931>>,
      <<66176, 66204>>, <<66208, 66256>>, <<66273, 66299>>, <<66304, 66339>>,
      <<66349, 66378>>, <<66384, 66421>>, <<66432, 66461>>, <<66464, 66499>>,
      <<66504, 66511>>, <<66513, 66517>>, <<66560, 66717>>, <<66720, 66729>>,
      <<66736, 66771>>, <<66776, 66811>>, <<66816, 66855>>, <<66864, 66915>>,
      <<66928, 66938>>, <<66940, 66954>>, <<66956, 66962>>, <<66964, 66965>>,
      <<66967, 66977>>, <<66979, 66993>>, <<66995, 67001>>, <<67003, 67004>>,
      <<67072, 67382>>, <<67392, 67413>>, <<67424, 67431>>, <<67456, 67461>>,
      <<67463, 67504>>, <<67506, 67514>>, <<67584, 67589>>, <<67592, 67592>>,
      <<67594, 67637>>, <<67639, 67640>>, <<67644, 67644>>, <<67647, 67669>>,
      <<67672, 67702>>, <<67705, 67742>>, <<67751, 67759>>, <<67808, 67826>>,
      <<67828, 67829>>, <<67835, 67867>>, <<67872, 67897>>, <<67968, 68023>>,
      <<68028, 68047>>, <<68050, 68096>>, <<68112, 68115>>, <<68117, 68119>>,
      <<68121, 68149>>, <<68160, 68168>>, <<68192, 68222>>, <<68224, 68255>>,
      <<68288, 68295>>, <<68297, 68324>>, <<68331, 68335>>, <<68352, 68405>>,
      <<68416, 68437>>, <<68440, 68466>>, <<68472, 68497>>, <<68521, 68527>>,
      <<68608, 68680>>, <<68736, 68786>>, <<68800, 68850>>, <<68858, 68899>>,
      <<68912, 68921>>, <<69216, 69246>>, <<69248, 69289>>, <<69296, 69297>>,
      <<69376, 69415>>, <<69424, 69445>>, <<69457, 69460>>, <<69488, 69505>>,
      <<69552, 69579>>, <<69600, 69622>>, <<69635, 69687>>, <<69714, 69743>>,
      <<69745, 69746>>, <<69749, 69749>>, <<69763, 69807>>, <<69840, 69864>>,
      <<69872, 69881>>, <<69891, 69926>>, <<69942, 69951>>, <<69956, 69956>>,
      <<69959, 69959>>, <<69968, 70002>>, <<70006, 70006>>, <<70019, 70066>>,
      <<70081, 70084>>, <<70096, 70106>>, <<70108, 70108>>, <<70113, 70132>>,
      <<70144, 70161>>, <<70163, 70187>>, <<70272, 70278>>, <<70280, 70280>>,
      <<70282, 70285>>, <<70287, 70301>>, <<70303, 70312>>, <<70320, 70366>>,
      <<70384, 70393>>, <<70405, 70412>>, <<70415, 70416>>, <<70419, 70440>>,
      <<70442, 70448>>, <<70450, 70451>>, <<70453, 70457>>, <<70461, 70461>>,
      <<70480, 70480>>, <<70493, 70497>>, <<70656, 70708>>, <<70727, 70730>>,
      <<70736, 70745>>, <<70751, 70753>>, <<70784, 70831>>, <<70852, 70853>>,
      <<70855, 70855>>, <<70864, 70873>>, <<71040, 71086>>, <<71128, 71131>>,
      <<71168, 71215>>, <<71236, 71236>>, <<71248, 71257>>, <<71296, 71338>>,
      <<71352, 71352>>, <<71360, 71369>>, <<71424, 71450>>, <<71472, 71483>>,
      <<71488, 71494>>, <<71680, 71723>>, <<71840, 71922>>, <<71935, 71942>>,
      <<71945, 71945>>, <<71948, 71955>>, <<71957, 71958>>, <<71960, 71983>>,
      <<71999, 71999>>, <<72001, 72001>>, <<72016, 72025>>, <<72096, 72103>>,
      <<72106, 72144>>, <<72161, 72161>>, <<72163, 72163>>, <<72192, 72192>>,
      <<72203, 72242>>, <<72250, 72250>>, <<72272, 72272>>, <<72284, 72329>>,
      <<72349, 72349>>, <<72368, 72440>>, <<72704, 72712>>, <<72714, 72750>>,
      <<72768, 72768>>, <<72784, 72812>>, <<72818, 72847>>, <<72960, 72966>>,
      <<72968, 72969>>, <<72971, 73008>>, <<73030, 73030>>, <<73040, 73049>>,
      <<73056, 73061>>, <<73063, 73064>>, <<73066, 73097>>, <<73112, 73112>>,
      <<73120, 73129>>, <<73440, 73458>>, <<73648, 73648>>, <<73664, 73684>>,
      <<73728, 74649>>, <<74752, 74862>>, <<74880, 75075>>, <<77712, 77808>>,
      <<77824, 78894>>, <<82944, 83526>>, <<92160, 92728>>, <<92736, 92766>>,
      <<92768, 92777>>, <<92784, 92862>>, <<92864, 92873>>, <<92880, 92909>>,
      <<92928, 92975>>, <<92992, 92995>>, <<93008, 93017>>, <<93019, 93025>>,
      <<93027, 93047>>, <<93053, 93071>>, <<93760, 93846>>, <<93952, 94026>>,
      <<94032, 94032>>, <<94099, 94111>>, <<94176, 94177>>, <<94179, 94179>>,
      <<94208, 100343>>, <<100352, 101589>>, <<101632, 101640>>, <<110576, 110579>>,
      <<110581, 110587>>, <<110589, 110590>>, <<110592, 110882>>, <<110928, 110930>>,
      <<110948, 110951>>, <<110960, 111355>>, <<113664, 113770>>, <<113776, 113788>>,
      <<113792, 113800>>, <<113808, 113817>>, <<119520, 119539>>, <<119648, 119672>>,
      <<119808, 119892>>, <<119894, 119964>>, <<119966, 119967>>, <<119970, 119970>>,
      <<119973, 119974>>, <<119977, 119980>>, <<119982, 119993>>, <<119995, 119995>>,
      <<119997, 120003>>, <<120005, 120069>>, <<120071, 120074>>, <<120077, 120084>>,
      <<120086, 120092>>, <<120094, 120121>>, <<120123, 120126>>, <<120128, 120132>>,
      <<120134, 120134>>, <<120138, 120144>>, <<120146, 120485>>, <<120488, 120512>>,
      <<120514, 120538>>, <<120540, 120570>>, <<120572, 120596>>, <<120598, 120628>>,
      <<120630, 120654>>, <<120656, 120686>>, <<120688, 120712>>, <<120714, 120744>>,
      <<120746, 120770>>, <<120772, 120779>>, <<120782, 120831>>, <<122624, 122654>>,
      <<123136, 123180>>, <<123191, 123197>>, <<123200, 123209>>, <<123214, 123214>>,
      <<123536, 123565>>, <<123584, 123627>>, <<123632, 123641>>, <<124896, 124902>>,
      <<124904, 124907>>, <<124909, 124910>>, <<124912, 124926>>, <<124928, 125124>>,
      <<125127, 125135>>, <<125184, 125251>>, <<125259, 125259>>, <<125264, 125273>>,
      <<126065, 126123>>, <<126125, 126127>>, <<126129, 126132>>, <<126209, 126253>>,
      <<126255, 126269>>, <<126464, 126467>>, <<126469, 126495>>, <<126497, 126498>>,
      <<126500, 126500>>, <<126503, 126503>>, <<126505, 126514>>, <<126516, 126519>>,
      <<126521, 126521>>, <<126523, 126523>>, <<126530, 126530>>, <<126535, 126535>>,
      <<126537, 126537>>, <<126539, 126539>>, <<126541, 126543>>, <<126545, 126546>>,
      <<126548, 126548>>, <<126551, 126551>>, <<126553, 126553>>, <<126555, 126555>>,
      <<126557, 126557>>, <<126559, 126559>>, <<126561, 126562>>, <<126564, 126564>>,
      <<126567, 126570>>, <<126572, 126578>>, <<126580, 126583>>, <<126585, 126588>>,
      <<126590, 126590>>, <<126592, 126601>>, <<126603, 126619>>, <<126625, 126627>>,
      <<126629, 126633>>, <<126635, 126651>>, <<127232, 127244>>, <<130032, 130041>>,
      <<131072, 173791>>, <<173824, 177976>>, <<177984, 178205>>, <<178208, 183969>>,
      <<183984, 191456>>, <<194560, 195101>>, <<196608, 201546>>>>

DigitRanges ==
    <<<<1632, 1641>>, <<1776, 1785>>, <<1984, 1993>>, <<2406, 2415>>, <<2534, 2543>>,
      <<2662, 2671>>, <<2790, 2799>>, <<2918, 2927>>, <<3046, 3055>>, <<3174, 3183>>,
      <<3302, 3311>>, <<3430, 3439>>, <<3558, 3567>>, <<3664, 3673>>, <<3792, 3801>>,
      <<3872, 3881>>, <<4160, 4169>>, <<4240, 4249>>, <<6112, 6121>>, <<6160, 6169>>,
      <<6470, 6479>>, <<6608, 6617>>, <<6784, 6793>>, <<6800, 6809>>, <<6992, 7001>>,
      <<7088, 7097>>, <<7232, 7241>>, <<7248, 7257>>, <<42528, 42537>>,
      <<43216, 43225>>, <<43264, 43273>>, <<43472, 43481>>, <<43504, 43513>>,
      <<43600, 43609>>, <<44016, 44025>>, <<65296, 65305>>, <<66720, 66729>>,
      <<68912, 68921>>, <<69734, 69743>>, <<69872, 69881>>, <<69942, 69951>>,
      <<70096, 70105>>, <<70384, 70393>>, <<70736, 70745>>, <<70864, 70873>>,
      <<71248, 71257>>, <<71360, 71369>>, <<71472, 71481>>, <<71904, 71913>>,
      <<72016, 72025>>, <<72784, 72793>>, <<73040, 73049>>, <<73120, 73129>>,
      <<92768, 92777>>, <<92864, 92873>>, <<93008, 93017>>, <<120782, 120831>>,
      <<123200, 123209>>, <<123632, 123641>>, <<125264, 125273>>, <<130032, 130041>>>>

\* the characters outside ASCII that \w matches and \d does not, and those
\* that \d matches
UnicodeLetters ==
    {c \in STRING : /\ IsCodePoint(c)
                    /\ InRanges(CodePoint(c), WordRanges)
                    /\ ~InRanges(CodePoint(c), DigitRanges)}
UnicodeDigits == {c \in STRING : IsCodePoint(c) /\ InRanges(CodePoint(c), DigitRanges)}
LowerLetters ==
    {"a", "b", "c", "d", "e", "f", "g", "h", "i", "j", "k", "l", "m", "n", "o", "p",
     "q", "r", "s", "t", "u", "v", "w", "x", "y", "z"}
UpperLetters ==
    {"A", "B", "C", "D", "E", "F", "G", "H", "I", "J", "K", "L", "M", "N", "O", "P",
     "Q", "R", "S", "T", "U", "V", "W", "X", "Y", "Z"}
\* the letters and the digits of \w and \d in a str pattern: Unicode-aware
Letters == LowerLetters \cup UpperLetters \cup UnicodeLetters
Digits == {"0", "1", "2", "3", "4", "5", "6", "7", "8", "9"} \cup UnicodeDigits

\* the class [\w\d] of the chat id pattern
RoomChars == Letters \cup Digits \cup {"_"}
\* the class [\w\d_-] of the sender pattern
UserChars == RoomChars \cup {"-"}

\* mutant: only the first quote is removed
RemoveQuotes_FirstOnly(s) ==
    IF \E i \in 1..Len(s) : s[i] = Quote
    THEN LET first == CHOOSE i \in 1..Len(s) :
                          s[i] = Quote /\ \A j \in 1..(i - 1) : s[j] # Quote
         IN  SubSeq(s, 1, first - 1) \o SubSeq(s, first + 1, Len(s))
    ELSE s

\* s.replace('"', '')
RemoveQuotes(s) == SelectSeq(s, LAMBDA c : c # Quote)

\* the longest run of characters of a class that starts at position i
RECURSIVE RunFrom(_, _, _)
RunFrom(s, i, class) ==
    IF i > Len(s) \/ s[i] \notin class THEN <<>>
    ELSE <<s[i]>> \o RunFrom(s, i + 1, class)

\* re.search(r'!([\w\d]+)', s): the positions where the pattern matches
RoomMatches(s) == {i \in 1..(Len(s) - 1) : s[i] = "!" /\ s[i + 1] \in RoomChars}

\* re.search(r'@?([\w\d_-]+)', s): the positions where the pattern matches,
\* with or without the optional '@'
UserMatches(s) ==
    {i \in 1..Len(s) :
        \/ s[i] \in UserChars
        \/ s[i] = "@" /\ i < Len(s) /\ s[i + 1] \in UserChars}

Least(S) == CHOOSE i \in S : \A j \in S : i <= j

\* cleaned_msg['chat_id']: '!' and group 1 of the leftmost match, or the
\* string without its quotes
CleanChatId(raw) ==
    LET stripped == RemoveQuotes(raw)
    IN  IF RoomMatches(stripped) # {}
        THEN <<"!">> \o RunFrom(stripped, Least(RoomMatches(stripped)) + 1, RoomChars)
        ELSE stripped

\* cleaned_msg['sender_alias']: group 1 of the leftmost match, or the string
\* without its quotes
CleanSender(raw) ==
    LET stripped == RemoveQuotes(raw)
    IN  IF UserMatches(stripped) # {}
        THEN LET i == Least(UserMatches(stripped))
             IN  RunFrom(stripped, IF stripped[i] = "@" THEN i + 1 ELSE i, UserChars)
        ELSE stripped

\* cleaned_msg of one message: a copy with chat_id and sender_alias cleaned
CleanMsg(msg) ==
    [k \in DOMAIN msg |->
        IF k = "chat_id" THEN CleanChatId(msg[k])
        ELSE IF k = "sender_alias" THEN CleanSender(msg[k])
        ELSE msg[k]]

\* mutant: cleaned_msg is the message itself, not a copy of it
CleanStep_NoCopy(msg) == [msg |-> CleanMsg(msg), cleaned_msg |-> CleanMsg(msg)]

\* one pass of the loop body: cleaned_msg = msg.copy() takes the assignments,
\* msg stays as it was parsed
CleanStep(msg) == [msg |-> msg, cleaned_msg |-> CleanMsg(msg)]

\* a message of the input file as an item: a JSON object with string values
Obj(msg) == [type |-> "object", msg |-> msg, non_string |-> {}, encodable |-> TRUE]

\* mutant: malformed JSON is read as an empty list
Readable_Malformed(file) == file.content \in {"object", "array", "malformed"}

\* open, json.load and the isinstance checks give a list of items: the file
\* exists and holds a JSON array, or a JSON object (which is wrapped in a list)
Readable(file) == file.content \in {"object", "array"}

\* a JSON array as an item: a list value is written [elements |-> ...], so
\* that it stands beside the dicts in data and cleaned_data
List(elements) ==
    [type |-> "list", msg |-> [elements |-> elements], non_string |-> {},
     encodable |-> TRUE]

\* key in msg: a key of a dict, an element of a list
Holds(item, key) ==
    IF item.type = "list"
    THEN \E i \in 1..Len(item.msg.elements) : item.msg.elements[i] = key
    ELSE key \in DOMAIN item.msg

\* the loop body raises nothing. A dict: msg.copy() succeeds, and the two
\* replace calls do when chat_id and sender_alias, if present, are strings.
\* A list: msg.copy() succeeds and neither name is an element of it (else
\* msg['chat_id'] raises TypeError). Anything else has no copy()
Cleanable(item) ==
    \/ /\ item.type = "object"
       /\ item.non_string \cap {"chat_id", "sender_alias"} = {}
    \/ /\ item.type = "list"
       /\ ~Holds(item, "chat_id")
       /\ ~Holds(item, "sender_alias")

\* msg and cleaned_msg of one item after the loop body: a dict goes through
\* the assignments, a list is copied as it is
LoopBody(item) ==
    IF item.type = "list" THEN [msg |-> item.msg, cleaned_msg |-> item.msg]
    ELSE CleanStep(item.msg)

\* the items the loop gets through before one raises
RECURSIVE CleanablePrefix(_)
CleanablePrefix(items) ==
    IF items = <<>> \/ ~Cleanable(Head(items)) THEN <<>>
    ELSE <<Head(items)>> \o CleanablePrefix(Tail(items))

\* data and cleaned_data when the loop ends or raises: the items it got
\* through have gone through the loop body
AfterLoop(items) ==
    [i \in 1..Len(items) |->
        IF i <= Len(CleanablePrefix(items))
        THEN [items[i] EXCEPT !.msg = LoopBody(items[i]).msg]
        ELSE items[i]]
CleanedByLoop(items) ==
    LET done == CleanablePrefix(items)
    IN  [i \in 1..Len(done) |-> LoopBody(done[i]).cleaned_msg]

\* the names the files of an input directory can have
BatchNames == {"a.json", "b.json", "c.json", "d.json"}

\* glob.glob returns the matching files in the order of the directory, which
\* is any order: the lists of n different names
GlobOrders(n) ==
    {names \in [1..n -> BatchNames] :
        \A i, j \in 1..n : names[i] = names[j] => i = j}

\* os.path.join(output_dir, f"cleaned_{file_name}")
OutputPath(file_name) ==
    CASE file_name = "a.json" -> "out/cleaned_a.json"
      [] file_name = "b.json" -> "out/cleaned_b.json"
      [] file_name = "c.json" -> "out/cleaned_c.json"
      [] file_name = "d.json" -> "out/cleaned_d.json"

\* open(output_file, 'w') succeeds: the directory of the path exists (the
\* batch cleaner makes its output directory first)
Writable(path) ==
    path \in {"cleaned.json"} \cup {OutputPath(name) : name \in BatchNames}

\* if output_file: None and the empty string are false
Given(path) == path # None /\ path # ""

\* json.dump can encode every string it is given
Encodable(items) == \A i \in 1..Len(items) : items[i].encodable

\* clean_matrix_json, no error: the items are read and cleaned, the cleaned
\* list is saved when an output file is given, and returned
CleanData ==
    /\ cpc = "clean"
    /\ Readable(input_file)
    /\ \A i \in 1..Len(input_file.items) : Cleanable(input_file.items[i])
    /\ Given(output_file) => Writable(output_file) /\ Encodable(input_file.items)
    /\ data' = AfterLoop(input_file.items)
    /\ cleaned_data' = CleanedByLoop(input_file.items)
    /\ saved' = IF Given(output_file)
                THEN [written |-> TRUE, complete |-> TRUE, content |-> cleaned_data']
                ELSE saved
    /\ result' = cleaned_data'
    /\ cpc' = "done"
    /\ UNCHANGED <<input_file, output_file>>
    /\ UNCHANGED <<convoVars, groupVars, dropdown_configs>>
    /\ UNCHANGED <<batchVars, scriptVars, alias_warning, file_warnings>>

\* clean_matrix_json, an error while reading (no file, malformed JSON, neither
\* a list nor a dict): caught, the empty list is returned
CleanReadRaises ==
    /\ cpc = "clean"
    /\ ~Readable(input_file)
    /\ result' = <<>>
    /\ cpc' = "failed"
    /\ UNCHANGED <<input_file, output_file, data, cleaned_data, saved>>
    /\ UNCHANGED <<convoVars, groupVars, dropdown_configs>>
    /\ UNCHANGED <<batchVars, scriptVars, alias_warning, file_warnings>>

\* clean_matrix_json, an error in the loop: caught, the empty list is returned
CleanItemRaises ==
    /\ cpc = "clean"
    /\ Readable(input_file)
    /\ \E i \in 1..Len(input_file.items) : ~Cleanable(input_file.items[i])
    /\ data' = AfterLoop(input_file.items)
    /\ cleaned_data' = CleanedByLoop(input_file.items)
    /\ result' = <<>>
    /\ cpc' = "failed"
    /\ UNCHANGED <<input_file, output_file, saved>>
    /\ UNCHANGED <<convoVars, groupVars, dropdown_configs>>
    /\ UNCHANGED <<batchVars, scriptVars, alias_warning, file_warnings>>

\* clean_matrix_json, an error while saving: caught, the empty list is
\* returned; the file is not there when it could not be opened, and is cut
\* short when a string could not be encoded
CleanSaveRaises ==
    /\ cpc = "clean"
    /\ Readable(input_file)
    /\ \A i \in 1..Len(input_file.items) : Cleanable(input_file.items[i])
    /\ Given(output_file)
    /\ ~Writable(output_file) \/ ~Encodable(input_file.items)
    /\ data' = AfterLoop(input_file.items)
    /\ cleaned_data' = CleanedByLoop(input_file.items)
    /\ saved' = IF Writable(output_file)
                THEN [written |-> TRUE, complete |-> FALSE, content |-> <<>>]
                ELSE saved
    /\ result' = <<>>
    /\ cpc' = "failed"
    /\ UNCHANGED <<input_file, output_file>>
    /\ UNCHANGED <<convoVars, groupVars, dropdown_configs>>
    /\ UNCHANGED <<batchVars, scriptVars, alias_warning, file_warnings>>

\* the characters of the identifiers tried exhaustively
IdAlphabet == {"a", "-", ".", "!", "@", ":", Quote}
Ids == UNION {[1..n -> IdAlphabet] : n \in 0..MaxIdLen}

\* the documented examples
Chars_abc123 == <<"!", "a", "b", "c", "1", "2", "3", ":", "m", "a", "t", "r", "i", "x",
                  ".", "e", "x", "a", "m", "p", "l", "e", ".", "o", "r", "g">>
Chars_bob_99 == <<"@", "b", "o", "b", "_", "9", "9", ":", "e", "x", "a", "m", "p", "l",
                  "e", ".", "o", "r", "g">>
Chars_plainname == <<Quote, "p", "l", "a", "i", "n", "n", "a", "m", "e", Quote>>
\* identifiers with upper case letters and with characters outside ASCII
Chars_Abc_server == <<"!", "A", "b", "c", ":", "s", "e", "r", "v", "e", "r">>
Chars_Bob == <<"@", "B", "o", "b", ":", "e", "x", "a", "m", "p", "l", "e", ".", "o", "r",
               "g">>
UpperCaseIds == {Chars_Abc_server, Chars_Bob, <<"!", "A", "B", "C">>,
                 <<"!", "a", "B", "c">>, <<"x", "!", "A", ":", "b">>, <<"a", "B">>}
UnicodeIds == {<<"!", "U+0663", ":">>, <<".", "U+00E9", ".">>,
               <<"@", "U+0416", "U+4E2D", ":", "U+00DF">>}
ExampleIds == {Chars_abc123, <<Quote>> \o Chars_abc123 \o <<Quote>>, Chars_bob_99,
               Chars_plainname} \cup UpperCaseIds \cup UnicodeIds

\* an input file with one message
OneMessageFile(msg) == [content |-> "array", items |-> <<Obj(msg)>>]

\* items of the other input files: two messages, a message whose chat_id is a
\* number, a message with a string no file can hold, a string, a list, a list
\* with the element 'chat_id'
SampleItems ==
    {Obj([chat_id |-> Chars_abc123, sender_alias |-> Chars_bob_99, message |-> 1]),
     Obj([sender_alias |-> Chars_plainname, message |-> 2]),
     [type |-> "object", msg |-> [chat_id |-> 7, message |-> 3],
      non_string |-> {"chat_id", "message"}, encodable |-> TRUE],
     [type |-> "object", msg |-> [message |-> 4], non_string |-> {}, encodable |-> FALSE],
     [type |-> "string", msg |-> EmptyDict, non_string |-> {}, encodable |-> TRUE],
     List(<<"x", "y">>),
     List(<<"chat_id">>)}

SampleInputFiles ==
    {NoInputFile,
     [content |-> "malformed", items |-> <<>>],
     [content |-> "scalar", items |-> <<>>]}
    \cup {[content |-> "object", items |-> <<item>>] :
             item \in {i \in SampleItems : i.type = "object"}}
    \cup {[content |-> "array", items |-> items] :
             items \in UNION {[1..n -> SampleItems] : n \in 0..MaxFileItems}}

OutputFiles == {None, "", "cleaned.json", "no_such_dir/cleaned.json"}

CleanInit ==
    /\ \/ \E id \in Ids \cup ExampleIds :
             \E msg \in {[chat_id |-> id, message |-> 1],
                         [sender_alias |-> id, message |-> 1]} :
                 input_file = OneMessageFile(msg) /\ output_file = None
       \/ input_file \in SampleInputFiles /\ output_file \in OutputFiles
    /\ data = <<>>
    /\ cleaned_data = <<>>
    /\ saved = NothingSaved
    /\ result = <<>>
    /\ cpc = "clean"
    /\ pc = "idle"
    /\ dropdown_configs = <<>>
    /\ output_users = <<>>
    /\ user_match_list = UnreadableAliasFile
    /\ conti_chats = <<>>
    /\ file_idx = 1
    /\ alias_mapping = EmptyDict
    /\ structured_messages = EmptyDict
    /\ initial_count = 0
    /\ processed_count = 0
    /\ mismatch = FALSE
    /\ conversation_segments = EmptyDict
    /\ conversation_turns = EmptyDict
    /\ html_idx = 1
    /\ html_files = EmptyDict
    /\ html_log = <<>>
    /\ gpc = "idle"
    /\ file_path = MissingFile
    /\ main_user = None
    /\ messages = <<>>
    /\ chat_id = "!room"
    /\ group_html = NoGroupHtml
    /\ chat_messages = <<>>
    /\ turns = <<>>
    /\ BatchIdle /\ ScriptIdle /\ alias_warning = FALSE /\ file_warnings = <<>>

(***************************************************************************)
(* batch_clean_matrix_json: the cleaner on every file of a directory.      *)
(***************************************************************************)
\* most files of the input directory
MaxBatchFiles == 3

\* glob found nothing: a message, and the function returns
BatchNoFiles ==
    /\ bpc = "glob"
    /\ file_paths = <<>>
    /\ bpc' = "no_files"
    /\ UNCHANGED <<file_paths, batch_idx, batch_log, output_dir>>
    /\ UNCHANGED <<convoVars, groupVars, cleanVars, dropdown_configs, scriptVars, alias_warning, file_warnings>>

\* glob found files: the loop over them starts
BatchFound ==
    /\ bpc = "glob"
    /\ file_paths # <<>>
    /\ bpc' = "loop"
    /\ UNCHANGED <<file_paths, batch_idx, batch_log, output_dir>>
    /\ UNCHANGED <<convoVars, groupVars, cleanVars, dropdown_configs, scriptVars, alias_warning, file_warnings>>

\* the loop calls clean_matrix_json(file_path, output_path)
BatchCall ==
    /\ bpc = "loop"
    /\ batch_idx <= Len(file_paths)
    /\ input_file' = file_paths[batch_idx].file
    /\ output_file' = OutputPath(file_paths[batch_idx].name)
    /\ data' = <<>>
    /\ cleaned_data' = <<>>
    /\ saved' = NothingSaved
    /\ result' = <<>>
    /\ cpc' = "clean"
    /\ bpc' = "call"
    /\ UNCHANGED <<file_paths, batch_idx, batch_log, output_dir>>
    /\ UNCHANGED <<convoVars, groupVars, dropdown_configs, scriptVars, alias_warning, file_warnings>>

\* mutant: the loop ends at the first file that fails
BatchReturn_StopsOnFailure ==
    /\ bpc = "call"
    /\ cpc \in {"done", "failed"}
    /\ batch_log' = IF cpc = "done" THEN Append(batch_log, Len(result)) ELSE batch_log
    /\ output_dir' = IF saved.written THEN Put(output_dir, output_file, saved) ELSE output_dir
    /\ batch_idx' = batch_idx + 1
    /\ bpc' = IF batch_idx' > Len(file_paths) \/ cpc = "failed" THEN "finished" ELSE "loop"
    /\ cpc' = "idle"
    /\ UNCHANGED <<file_paths, input_file, output_file, data, cleaned_data, saved, result>>
    /\ UNCHANGED <<convoVars, groupVars, dropdown_configs, scriptVars, alias_warning, file_warnings>>

\* clean_matrix_json has returned: messages is its list, "Processed N
\* messages" is printed, and the loop goes on to the next file
BatchReturn ==
    /\ bpc = "call"
    /\ cpc \in {"done", "failed"}
    /\ batch_log' = Append(batch_log, Len(result))
    /\ output_dir' = IF saved.written THEN Put(output_dir, output_file, saved) ELSE output_dir
    /\ batch_idx' = batch_idx + 1
    /\ bpc' = IF batch_idx' > Len(file_paths) THEN "finished" ELSE "loop"
    /\ cpc' = "idle"
    /\ UNCHANGED <<file_paths, input_file, output_file, data, cleaned_data, saved, result>>
    /\ UNCHANGED <<convoVars, groupVars, dropdown_configs, scriptVars, alias_warning, file_warnings>>

\* the files of an input directory: two files of messages, malformed JSON, a
\* message whose chat_id is a number, a message with a string no file can hold
BatchContents ==
    {[content |-> "array",
      items |-> <<Obj([chat_id |-> Chars_abc123, sender_alias |-> Chars_bob_99,
                       message |-> 1]),
                  Obj([sender_alias |-> Chars_plainname, message |-> 2])>>],
     OneMessageFile([chat_id |-> <<Quote>> \o Chars_abc123 \o <<Quote>>, message |-> 3]),
     [content |-> "malformed", items |-> <<>>],
     [content |-> "array",
      items |-> <<Obj([message |-> 4]),
                  [type |-> "object", msg |-> [chat_id |-> 7, message |-> 5],
                   non_string |-> {"chat_id", "message"}, encodable |-> TRUE]>>],
     [content |-> "array",
      items |-> <<[type |-> "object", msg |-> [message |-> 6], non_string |-> {},
                   encodable |-> FALSE]>>]}

\* the state before batch_clean_matrix_json looks at what glob found
BatchInit ==
    /\ \E n \in 0..MaxBatchFiles : \E names \in GlobOrders(n) :
           \E f \in [1..n -> BatchContents] :
               file_paths = [i \in 1..n |-> [name |-> names[i], file |-> f[i]]]
    /\ bpc = "glob"
    /\ batch_idx = 1
    /\ batch_log = <<>>
    /\ output_dir = EmptyDict
    /\ cpc = "idle"
    /\ input_file = NoInputFile
    /\ output_file = None
    /\ data = <<>>
    /\ cleaned_data = <<>>
    /\ saved = NothingSaved
    /\ result = <<>>
    /\ pc = "idle"
    /\ dropdown_configs = <<>>
    /\ output_users = <<>>
    /\ user_match_list = UnreadableAliasFile
    /\ conti_chats = <<>>
    /\ file_idx = 1
    /\ alias_mapping = EmptyDict
    /\ structured_messages = EmptyDict
    /\ initial_count = 0
    /\ processed_count = 0
    /\ mismatch = FALSE
    /\ conversation_segments = EmptyDict
    /\ conversation_turns = EmptyDict
    /\ html_idx = 1
    /\ html_files = EmptyDict
    /\ html_log = <<>>
    /\ gpc = "idle"
    /\ file_path = MissingFile
    /\ main_user = None
    /\ messages = <<>>
    /\ chat_id = "!room"
    /\ group_html = NoGroupHtml
    /\ chat_messages = <<>>
    /\ turns = <<>>
    /\ ScriptIdle /\ alias_warning = FALSE /\ file_warnings = <<>>

CleanerInit == CleanInit \/ BatchInit

CleanNext ==
    \/ CleanData
    \/ CleanReadRaises
    \/ CleanItemRaises
    \/ CleanSaveRaises
    \/ BatchNoFiles
    \/ BatchFound
    \/ BatchCall
    \/ BatchReturn

CleanSpec == CleanerInit /\ [][CleanNext]_vars

(***************************************************************************)
(* Vocabulary of the properties.                                           *)
(***************************************************************************)
RECURSIVE Concat(_)
Concat(ss) == IF ss = <<>> THEN <<>> ELSE Head(ss) \o Concat(Tail(ss))

\* timestamp and sender of a message <<ts, sender, ...>>
TsOf(m) == m[1]
SenderOf(m) == m[2]
\* a group-chat message read as such a tuple, the way the segmenter reads it
ChatTuple(msg) ==
    <<Get(msg, "timestamp", DatetimeMin), Get(msg, "sender_alias", ""),
      Get(msg, "chat_id", ""), Get(msg, "message", 0)>>
ChatTuples(msgs) == [i \in 1..Len(msgs) |-> ChatTuple(msgs[i])]
Gap(m1, m2) == TsOf(m2) - TsOf(m1)
Day(m) == TsOf(m) \div 86400

\* m1 is directly followed by m2 inside one of the turns
AdjacentInATurn(ts, m1, m2) ==
    \E t \in 1..Len(ts) : \E q \in 1..(Len(ts[t]) - 1) :
        ts[t][q] = m1 /\ ts[t][q + 1] = m2

\* m1 ends a turn and m2 opens the next one
SplitBetween(ts, m1, m2) ==
    \E t \in 1..(Len(ts) - 1) :
        ts[t] # <<>> /\ ts[t + 1] # <<>> /\ ts[t][Len(ts[t])] = m1 /\ ts[t + 1][1] = m2

\* every (input sequence, turns made of it) pair of the current state: one per
\* unit of the pairwise pipeline, one for the chat of the group-chat pipeline
PairwiseRuns ==
    IF pc = "done"
    THEN UNION {{<<conversation_segments[k][u], conversation_turns[k][u]>> :
                    u \in 1..Len(conversation_segments[k])} :
                k \in DOMAIN conversation_turns}
    ELSE {}
GroupRuns ==
    IF gpc = "done"
    THEN {<<ChatTuples(chat_messages), [t \in 1..Len(turns) |-> ChatTuples(turns[t])]>>}
    ELSE {}
SegmenterRuns == PairwiseRuns \cup GroupRuns

\* C1: concatenating the turns of a run, in order, gives back its input
\* sequence (per unit in the pairwise pipeline, per chat in the group-chat
\* pipeline): no message is lost, duplicated or moved.
C1_TurnsReconstructInput ==
    /\ pc = "done" =>
          /\ DOMAIN conversation_turns = ConvKeys(structured_messages)
          /\ \A k \in DOMAIN conversation_turns :
                Len(conversation_turns[k]) = Len(conversation_segments[k])
    /\ \A r \in SegmenterRuns : Concat(r[2]) = r[1]

C1_Witness ==
    /\ \E r \in PairwiseRuns : Len(r[2]) >= 2 /\ \E t \in 1..Len(r[2]) : Len(r[2][t]) >= 2
    /\ \E r \in GroupRuns : Len(r[2]) >= 2 /\ \E t \in 1..Len(r[2]) : Len(r[2][t]) >= 2

\* C2: every turn is non-empty, all its messages have one sender, and any
\* two adjacent messages of it are at most 1800 seconds apart.
C2_TurnsAreRuns ==
    \A r \in SegmenterRuns : \A t \in 1..Len(r[2]) :
        LET turn == r[2][t]
        IN  /\ turn # <<>>
            /\ \A q \in 1..Len(turn) : SenderOf(turn[q]) = SenderOf(turn[1])
            /\ \A q \in 1..(Len(turn) - 1) : Gap(turn[q], turn[q + 1]) <= 1800

C2_Witness ==
    /\ \E r \in PairwiseRuns : \E t \in 1..Len(r[2]) :
          Len(r[2][t]) >= 3 /\ Gap(r[2][t][1], r[2][t][3]) > 1800
    /\ \E r \in GroupRuns : \E t \in 1..Len(r[2]) :
          Len(r[2][t]) >= 3 /\ Gap(r[2][t][1], r[2][t][3]) > 1800

\* C3: two adjacent turns of one run have different senders, or the last
\* message of the first and the first message of the next are more than 1800
\* seconds apart: no turn could be merged with its neighbour.
C3_TurnsAreMaximal ==
    \A r \in SegmenterRuns : \A t \in 1..(Len(r[2]) - 1) :
        LET last == r[2][t][Len(r[2][t])]
            first == r[2][t + 1][1]
        IN  SenderOf(last) # SenderOf(first) \/ Gap(last, first) > 1800

C3_Witness ==
    /\ \E r \in PairwiseRuns : \E t \in 1..(Len(r[2]) - 1) :
          /\ SenderOf(r[2][t][1]) = SenderOf(r[2][t + 1][1])
          /\ \E u \in 1..(Len(r[2]) - 1) : SenderOf(r[2][u][1]) # SenderOf(r[2][u + 1][1])
    /\ \E r \in GroupRuns : \E t \in 1..(Len(r[2]) - 1) :
          /\ SenderOf(r[2][t][1]) = SenderOf(r[2][t + 1][1])
          /\ \E u \in 1..(Len(r[2]) - 1) : SenderOf(r[2][u][1]) # SenderOf(r[2][u + 1][1])

\* C4: two consecutive messages of one sender exactly 1800 seconds apart stay
\* in one turn; consecutive messages of one sender are split only when they
\* are strictly more than 1800 seconds apart.
C4_TieKeepsTurn ==
    \A r \in SegmenterRuns : \A i \in 1..(Len(r[1]) - 1) :
        LET m1 == r[1][i]
            m2 == r[1][i + 1]
        IN  SenderOf(m1) = SenderOf(m2) =>
               /\ Gap(m1, m2) = 1800 => AdjacentInATurn(r[2], m1, m2)
               /\ SplitBetween(r[2], m1, m2) => Gap(m1, m2) > 1800

C4_Witness ==
    /\ \E r \in PairwiseRuns : \E i \in 1..(Len(r[1]) - 1) :
          /\ SenderOf(r[1][i]) = SenderOf(r[1][i + 1])
          /\ Gap(r[1][i], r[1][i + 1]) = 1800
          /\ AdjacentInATurn(r[2], r[1][i], r[1][i + 1])
    /\ \E r \in GroupRuns : \E i \in 1..(Len(r[1]) - 1) :
          /\ SenderOf(r[1][i]) = SenderOf(r[1][i + 1])
          /\ Gap(r[1][i], r[1][i + 1]) = 1800
          /\ AdjacentInATurn(r[2], r[1][i], r[1][i + 1])

\* a message without its receiver or chat id: <<ts, sender, body>>
Brief(m) == <<m[1], m[2], m[4]>>
Briefs(msgs) == [i \in 1..Len(msgs) |-> Brief(msgs[i])]

\* the five messages at t, t+60, t+3600, t+3660, t+3700 from A, A, B, B, A
Scenario ==
    <<<<0, "alice", 1>>, <<60, "alice", 2>>, <<3600, "bob", 3>>, <<3660, "bob", 4>>,
      <<3700, "alice", 5>>>>
ScenarioTurns ==
    <<<<Scenario[1], Scenario[2]>>, <<Scenario[3], Scenario[4]>>, <<Scenario[5]>>>>

\* C5: a change of sender between two consecutive messages always closes the
\* turn and opens a new one, also for a sender who spoke before; the five
\* message scenario segments into [m1,m2], [m3,m4], [m5].
C5_SenderChangeStartsTurn ==
    \A r \in SegmenterRuns :
        /\ \A i \in 1..(Len(r[1]) - 1) :
              SenderOf(r[1][i]) # SenderOf(r[1][i + 1]) =>
                  SplitBetween(r[2], r[1][i], r[1][i + 1])
        /\ Briefs(r[1]) = Scenario =>
              [t \in 1..Len(r[2]) |-> Briefs(r[2][t])] = ScenarioTurns

C5_Witness ==
    /\ \E r \in PairwiseRuns : Briefs(r[1]) = Scenario
    /\ \E r \in GroupRuns : Briefs(r[1]) = Scenario

\* C6: no message gives no turn (and no error: both pipelines end normally),
\* one message gives exactly one turn holding just that message.
C6_EmptyAndSingle ==
    /\ (pc = "done" /\ structured_messages = EmptyDict) => conversation_turns = EmptyDict
    /\ chat_messages = <<>> => (turns = <<>> /\ gpc \in {"segment", "no_messages"})
    /\ \A r \in SegmenterRuns : Len(r[1]) = 1 => r[2] = <<r[1]>>

C6_Witness ==
    /\ pc = "done" /\ structured_messages = EmptyDict /\ conversation_turns = EmptyDict
    /\ gpc = "no_messages" /\ chat_messages = <<>>

C6_WitnessSingle ==
    /\ \E r \in PairwiseRuns : Len(r[1]) = 1
    /\ \E r \in GroupRuns : Len(r[1]) = 1

\* the (conversation, units) pairs of the current state
DateGroupings ==
    IF pc \in {"split_turns", "done"}
    THEN {<<structured_messages[k[1]][k[2]], conversation_segments[k]>> :
             k \in DOMAIN conversation_segments}
    ELSE {}

FirstIndexOfDay(msgs, d) == CHOOSE i \in 1..Len(msgs) :
    Day(msgs[i]) = d /\ \A j \in 1..(i - 1) : Day(msgs[j]) # d

\* C7: a unit holds all messages of one calendar date, in their sorted
\* order; no two units of a conversation have the same date; every message
\* is in a unit; units are ordered by the first appearance of their date.
C7_UnitsByDate ==
    /\ pc \in {"split_turns", "done"} =>
          DOMAIN conversation_segments = ConvKeys(structured_messages)
    /\ \A g \in DateGroupings :
          LET msgs == g[1]
              units == g[2]
          IN  /\ \A u \in 1..Len(units) :
                    /\ units[u] # <<>>
                    /\ units[u] = SelectSeq(msgs, LAMBDA m : Day(m) = Day(units[u][1]))
              /\ \A u, v \in 1..Len(units) :
                    u < v => /\ Day(units[u][1]) # Day(units[v][1])
                             /\ FirstIndexOfDay(msgs, Day(units[u][1]))
                                   < FirstIndexOfDay(msgs, Day(units[v][1]))
              /\ \A i \in 1..Len(msgs) :
                    \E u \in 1..Len(units) : Day(units[u][1]) = Day(msgs[i])

C7_Witness ==
    \E g \in DateGroupings :
        /\ Len(g[2]) >= 2
        /\ \A u \in 1..Len(g[2]) : Len(g[2][u]) >= 2

(***************************************************************************)
(* The alias table and the conversation buckets.                           *)
(***************************************************************************)
Range(f) == {f[x] : x \in DOMAIN f}

\* the alias list the table is built from
LoadedEntries == IF user_match_list.readable THEN user_match_list.entries ELSE <<>>
AliasesLoaded == pc # "load_aliases"

\* the strings an entry lists: its primary and its aliases
HasPrimary(e) == "primary" \in DOMAIN e
ListedIn(e) == (IF HasPrimary(e) THEN {e.primary} ELSE {}) \cup Range(e.aliases)

\* the table maps every alias to the primary of its entry, every primary to
\* itself, and leaves alone what the file does not list
EveryEntryMapped ==
    /\ \A i \in 1..Len(LoadedEntries) :
          LET e == LoadedEntries[i]
          IN  HasPrimary(e) =>
                 /\ e.primary \in DOMAIN alias_mapping
                 /\ alias_mapping[e.primary] = e.primary
                 /\ \A a \in Range(e.aliases) :
                       a \in DOMAIN alias_mapping /\ alias_mapping[a] = e.primary
    /\ \A name \in Names :
          (\A i \in 1..Len(LoadedEntries) : name \notin ListedIn(LoadedEntries[i])) =>
              Canonical(alias_mapping, name) = name

\* every entry has a primary and no string is listed in two entries
ConsistentAliasFile ==
    /\ \A i \in 1..Len(LoadedEntries) : HasPrimary(LoadedEntries[i])
    /\ \A i, j \in 1..Len(LoadedEntries) :
          i # j => ListedIn(LoadedEntries[i]) \cap ListedIn(LoadedEntries[j]) = {}

\* C8 as stated: for every alias file, every alias of an entry {primary,
\* aliases} maps to the primary of its entry, every primary to itself, and an
\* unlisted identifier is unchanged.
C8_Original_EveryAliasFile == AliasesLoaded => EveryEntryMapped

\* the entries with a primary that list the name
ListingEntries(name) ==
    {i \in 1..Len(LoadedEntries) :
        HasPrimary(LoadedEntries[i]) /\ name \in ListedIn(LoadedEntries[i])}
Greatest(S) == CHOOSE i \in S : \A j \in S : j <= i

ExampleAliasFile ==
    [readable |-> TRUE, entries |-> <<[primary |-> "Robert", aliases |-> <<"bob">>]>>]

\* C8 (amended): when every entry has a primary and no string is listed in
\* two entries, the table maps every alias to the primary of its entry and
\* every primary to itself, and an unlisted identifier is unchanged.  For
\* every file, a listed string maps to the primary of the last entry with a
\* primary that lists it, and any other string is no key of the table and
\* canonicalizes to itself.  The table of the file {Robert: [bob]}
\* is {bob: Robert, Robert: Robert}.
C8_AliasTable ==
    AliasesLoaded =>
        /\ ConsistentAliasFile => EveryEntryMapped
        /\ \A name \in Names :
              IF ListingEntries(name) = {}
              THEN /\ name \notin DOMAIN alias_mapping
                   /\ Canonical(alias_mapping, name) = name
              ELSE /\ name \in DOMAIN alias_mapping
                   /\ Canonical(alias_mapping, name)
                         = LoadedEntries[Greatest(ListingEntries(name))].primary
        /\ user_match_list = ExampleAliasFile =>
              /\ DOMAIN alias_mapping = {"bob", "Robert"}
              /\ Canonical(alias_mapping, "bob") = "Robert"
              /\ Canonical(alias_mapping, "Robert") = "Robert"

\* a consistent file of two entries, one of whose aliases is the sender of the
\* message read, which is stored under the primary
C8_Witness ==
    /\ pc = "done"
    /\ ConsistentAliasFile
    /\ Len(LoadedEntries) = 2
    /\ \E i \in 1..2 : \E a \in Range(LoadedEntries[i].aliases) :
          /\ a # LoadedEntries[i].primary
          /\ conti_chats[2].items[1].from = a
          /\ \E k \in ConvKeys(structured_messages) :
                structured_messages[k[1]][k[2]][1][2] = LoadedEntries[i].primary

\* the items read so far, in reading order
RECURSIVE ItemsOf(_, _)
ItemsOf(files, n) ==
    IF n = 0 THEN <<>>
    ELSE ItemsOf(files, n - 1) \o (IF files[n].exists THEN files[n].items ELSE <<>>)
ReadItems == ItemsOf(conti_chats, file_idx - 1)

\* the unordered pair of the canonical sender and receiver of an item
CanonicalPair(x) == {Canonical(alias_mapping, x.from), Canonical(alias_mapping, x.to)}

\* the conversations that hold the item
BucketsOf(x) ==
    {k \in ConvKeys(structured_messages) :
        \E q \in 1..Len(structured_messages[k[1]][k[2]]) :
            structured_messages[k[1]][k[2]][q][4] = x.body}

\* C9: every message read is stored in one conversation, and two messages
\* with the same unordered pair of canonical sender and receiver are stored
\* in the same conversation, whatever their directions and reading order.
C9_BucketByUnorderedPair ==
    AliasesLoaded =>
        \A i \in 1..Len(ReadItems) :
            /\ Cardinality(BucketsOf(ReadItems[i])) = 1
            /\ \A j \in 1..Len(ReadItems) :
                  CanonicalPair(ReadItems[i]) = CanonicalPair(ReadItems[j]) =>
                      BucketsOf(ReadItems[i]) = BucketsOf(ReadItems[j])

\* bob (an alias of Robert) writes to alice and alice writes to Robert: one bucket
C9_Witness ==
    /\ pc = "done"
    /\ \E i, j \in 1..Len(ReadItems) :
          /\ ReadItems[i].from = "bob" /\ ReadItems[i].to = "alice"
          /\ ReadItems[j].from = "alice" /\ ReadItems[j].to = "Robert"
          /\ Canonical(alias_mapping, "bob") = "Robert"
          /\ BucketsOf(ReadItems[i]) = BucketsOf(ReadItems[j])

(***************************************************************************)
(* Identifier cleaning.                                                    *)
(***************************************************************************)
AlNum == Letters \cup Digits
\* the characters of a room token or user name, and of a server name
LocalPartChars == AlNum \cup {"_", "-", "."}
ServerChars == AlNum \cup {"-", "."}

\* a token or name starts and ends with a letter or digit, and so does a server
IsLocalPart(u) ==
    /\ u # <<>> /\ u[1] \in AlNum /\ u[Len(u)] \in AlNum
    /\ \A i \in 1..Len(u) : u[i] \in LocalPartChars
IsServer(v) ==
    /\ v # <<>> /\ v[1] \in AlNum /\ v[Len(v)] \in AlNum
    /\ \A i \in 1..Len(v) : v[i] \in ServerChars

\* s without the double quotes it is wrapped in, if it is
Unwrapped(s) ==
    IF Len(s) >= 2 /\ s[1] = Quote /\ s[Len(s)] = Quote THEN SubSeq(s, 2, Len(s) - 1)
    ELSE s

\* the places of the ':' in local + ':' + server
Splits(s) ==
    {c \in 2..(Len(s) - 1) :
        /\ s[c] = ":"
        /\ IsLocalPart(SubSeq(s, 1, c - 1))
        /\ IsServer(SubSeq(s, c + 1, Len(s)))}

\* the room tokens of a chat id '!' + token + ':' + server, quoted or not
RoomTokens(s) ==
    LET u == Unwrapped(s)
    IN  IF u # <<>> /\ u[1] = "!"
        THEN {SubSeq(Tail(u), 1, c - 1) : c \in Splits(Tail(u))}
        ELSE {}

\* the user names of a sender ['@'] + username + ':' + server
UserNames(s) ==
    LET u == IF s # <<>> /\ s[1] = "@" THEN Tail(s) ELSE s
    IN  {SubSeq(u, 1, c - 1) : c \in Splits(u)}

\* the cleaned messages, each with the message it was made from
Cleaned ==
    IF cpc = "done" THEN {<<data[i].msg, cleaned_data[i]>> : i \in 1..Len(data)} ELSE {}

\* C10: a chat id '!' + token + ':' + server (in double quotes or not) is
\* cleaned to '!' + token, and a sender ['@'] + username + ':' + server to the
\* username alone.
C10_LocalPartOnly ==
    \A m \in Cleaned :
        /\ "chat_id" \in DOMAIN m[1] =>
              \A token \in RoomTokens(m[1].chat_id) : m[2].chat_id = <<"!">> \o token
        /\ "sender_alias" \in DOMAIN m[1] =>
              \A name \in UserNames(m[1].sender_alias) : m[2].sender_alias = name

\* the part of C10 the code does: a token made of letters, digits and '_'
\* (a user name: and '-') is kept whole; the two documented examples
C10_WordCharLocalParts ==
    \A m \in Cleaned :
        /\ "chat_id" \in DOMAIN m[1] =>
              /\ \A token \in RoomTokens(m[1].chat_id) :
                    (\A i \in 1..Len(token) : token[i] \in RoomChars) =>
                        m[2].chat_id = <<"!">> \o token
              /\ m[1].chat_id = Chars_abc123 => m[2].chat_id = SubSeq(Chars_abc123, 1, 7)
        /\ "sender_alias" \in DOMAIN m[1] =>
              /\ \A name \in UserNames(m[1].sender_alias) :
                    (\A i \in 1..Len(name) : name[i] \in UserChars) =>
                        m[2].sender_alias = name
              /\ m[1].sender_alias = Chars_bob_99 =>
                    m[2].sender_alias = SubSeq(Chars_bob_99, 2, 7)

\* s with every double quote taken out and every other character kept in place
RECURSIVE WithoutQuotes(_)
WithoutQuotes(s) ==
    IF s = <<>> THEN <<>>
    ELSE IF Head(s) = Quote THEN WithoutQuotes(Tail(s))
    ELSE <<Head(s)>> \o WithoutQuotes(Tail(s))

\* the identifier has the expected shape: a chat id is '!' + room token + ':'
\* + server, a sender is ['@'] + username + ':' + server, in double quotes
\* or not
HasRoomShape(s) == RoomTokens(s) # {}
HasUserShape(s) == UserNames(Unwrapped(s)) # {}

\* C11: an identifier that does not have the expected shape is cleaned to
\* itself without its double quotes, every other character unchanged;
\* '"plainname"' is cleaned to 'plainname'; a cleaned identifier never holds a
\* double quote.
C11_NoShapeStripsQuotes ==
    \A m \in Cleaned :
        /\ "chat_id" \in DOMAIN m[1] =>
              /\ ~HasRoomShape(m[1].chat_id) =>
                    m[2].chat_id = WithoutQuotes(m[1].chat_id)
              /\ m[1].chat_id = Chars_plainname =>
                    m[2].chat_id = SubSeq(Chars_plainname, 2, Len(Chars_plainname) - 1)
              /\ \A i \in 1..Len(m[2].chat_id) : m[2].chat_id[i] # Quote
        /\ "sender_alias" \in DOMAIN m[1] =>
              /\ ~HasUserShape(m[1].sender_alias) =>
                    m[2].sender_alias = WithoutQuotes(m[1].sender_alias)
              /\ m[1].sender_alias = Chars_plainname =>
                    m[2].sender_alias = SubSeq(Chars_plainname, 2, Len(Chars_plainname) - 1)
              /\ \A i \in 1..Len(m[2].sender_alias) : m[2].sender_alias[i] # Quote

\* a sender without ':' and server, the dotted name a.a, is cut to a
C11_DottedNameCut ==
    \E m \in Cleaned :
        /\ "sender_alias" \in DOMAIN m[1]
        /\ m[1].sender_alias = <<"a", ".", "a">>
        /\ ~HasUserShape(m[1].sender_alias)
        /\ m[2].sender_alias = <<"a">>

\* a chat id that does not start with '!' and names no server, a!a, is cut
\* to !a
C11_ChatIdCut ==
    \E m \in Cleaned :
        /\ "chat_id" \in DOMAIN m[1]
        /\ m[1].chat_id = <<"a", "!", "a">>
        /\ ~HasRoomShape(m[1].chat_id)
        /\ m[2].chat_id = <<"!", "a">>

\* re.search finds nothing in the chat id: no '!' is directly followed by a
\* letter, digit or '_' once the quotes are out
NoRoomMatch(s) ==
    LET u == WithoutQuotes(s)
    IN  \A i \in 1..Len(u) : u[i] = "!" => (i = Len(u) \/ u[i + 1] \notin RoomChars)

\* re.search finds nothing in the sender: no letter, digit, '_' or '-' at all
NoUserMatch(s) == \A i \in 1..Len(s) : s[i] \notin UserChars

\* what the code does: the else branches are taken only when re.search finds
\* nothing anywhere in the string, and then the identifier is returned without
\* its quotes; an identifier made of word characters only, as plainname, is
\* matched whole; no cleaned identifier holds a double quote
C11_FallbackOnlyWithoutMatch ==
    \A m \in Cleaned :
        /\ "chat_id" \in DOMAIN m[1] =>
              /\ NoRoomMatch(m[1].chat_id) => m[2].chat_id = WithoutQuotes(m[1].chat_id)
              /\ m[1].chat_id = Chars_plainname =>
                    m[2].chat_id = SubSeq(Chars_plainname, 2, Len(Chars_plainname) - 1)
              /\ \A i \in 1..Len(m[2].chat_id) : m[2].chat_id[i] # Quote
        /\ "sender_alias" \in DOMAIN m[1] =>
              /\ NoUserMatch(m[1].sender_alias) =>
                    m[2].sender_alias = WithoutQuotes(m[1].sender_alias)
              /\ (\A i \in 1..Len(WithoutQuotes(m[1].sender_alias)) :
                      WithoutQuotes(m[1].sender_alias)[i] \in UserChars) =>
                    m[2].sender_alias = WithoutQuotes(m[1].sender_alias)
              /\ \A i \in 1..Len(m[2].sender_alias) : m[2].sender_alias[i] # Quote

\* a chat id with a quote between other characters and nothing for the pattern
C11_FallbackReached ==
    \E m \in Cleaned :
        /\ "chat_id" \in DOMAIN m[1]
        /\ m[1].chat_id = <<"a", Quote, ":", "!">>
        /\ m[2].chat_id = <<"a", ":", "!">>

(***************************************************************************)
(* Errors of the cleaner.                                                  *)
(***************************************************************************)
\* clean_matrix_json has returned
Returned == cpc \in {"done", "failed"}

\* the input file cannot be read as a list of messages
ReadError == input_file.content \in {"missing", "malformed", "scalar"}

\* the loop body raises on an item: it is neither an object nor a list, or
\* an object whose chat_id or sender_alias is not a string, or a list with one
\* of the two names among its elements
RaisesInLoop(item) ==
    \/ item.type \notin {"object", "list"}
    \/ "chat_id" \in item.non_string
    \/ "sender_alias" \in item.non_string
    \/ /\ item.type = "list"
       /\ \E k \in 1..Len(item.msg.elements) :
              item.msg.elements[k] \in {"chat_id", "sender_alias"}

\* some item of the input cannot be cleaned
CleaningError ==
    /\ ~ReadError
    /\ \E i \in 1..Len(input_file.items) : RaisesInLoop(input_file.items[i])

\* C12: every call of clean_matrix_json returns (no error escapes it); when
\* the input file holds malformed JSON, or another error occurs while reading
\* or cleaning, it returns the empty list and no output file is written, not
\* even a part of one.
C12_ErrorsGiveEmptyList ==
    /\ cpc = "clean" => ENABLED CleanNext
    /\ Returned /\ (ReadError \/ CleaningError) =>
          /\ cpc = "failed"
          /\ result = <<>>
          /\ ~saved.written

\* malformed JSON with an output file asked for
C12_Witness ==
    /\ cpc = "failed"
    /\ input_file.content = "malformed"
    /\ output_file = "cleaned.json"
    /\ result = <<>>
    /\ saved = NothingSaved

\* a good message followed by an item that is not an object, with an output
\* file asked for: the first message was cleaned, nothing was written
C12_WitnessItem ==
    /\ cpc = "failed"
    /\ Len(input_file.items) = 2
    /\ input_file.items[2].type = "string"
    /\ Len(cleaned_data) = 1
    /\ output_file = "cleaned.json"
    /\ result = <<>>
    /\ saved = NothingSaved

\* outside C12: an error while saving also gives the empty list, but can leave
\* a part of the output file behind
C12_SaveErrorLeavesPart ==
    /\ cpc = "failed"
    /\ ~ReadError /\ ~CleaningError
    /\ result = <<>>
    /\ saved.written /\ ~saved.complete

(***************************************************************************)
(* Files that are not JSON, paths that do not exist.                       *)
(***************************************************************************)
\* the chat-log files the reading loop has got to so far
FilesReached == {i \in 1..Len(conti_chats) : i <= file_idx}

\* C13: a chat-log file with malformed JSON is caught by both pipelines: the
\* file is abandoned with an empty result and no exception reaches the
\* caller.  (The pairwise pipeline goes on to the files after it; the
\* group-chat pipeline returns.)
C13_MalformedJsonCaught ==
    /\ (\E i \in FilesReached : conti_chats[i].exists /\ ~conti_chats[i].valid) =>
          pc # "raised"
    /\ (file_path.exists /\ ~file_path.valid) => gpc # "raised"

\* the pairwise pipeline lets the exception of json.load out: the messages
\* already read from the files before are lost with it
C13_PairwiseRaises ==
    /\ pc = "raised"
    /\ conti_chats[file_idx] = MalformedFile
    /\ file_idx = 2
    /\ initial_count > 0
    /\ conversation_turns = EmptyDict

\* process_group_chat lets the exception of parse_group_chat out
C13_GroupRaises ==
    /\ gpc = "raised"
    /\ file_path = MalformedFile
    /\ ~group_html.written

\* the listed files without the paths that do not exist
RECURSIVE ExistingFiles(_)
ExistingFiles(files) ==
    IF files = <<>> THEN <<>>
    ELSE (IF Head(files).exists THEN <<Head(files)>> ELSE <<>>) \o ExistingFiles(Tail(files))

\* the items of files that all exist, in reading order
RECURSIVE AllItems(_)
AllItems(files) == IF files = <<>> THEN <<>> ELSE Head(files).items \o AllItems(Tail(files))

\* the turns the pipeline returns for files that all exist and hold JSON
TurnsFor(alias_file, files) ==
    LET mapping == BuildAliasMapping(IF alias_file.readable THEN alias_file.entries
                                     ELSE <<>>)
        sm == AddMessages(EmptyDict, AllItems(files), mapping)
    IN  [k \in ConvKeys(sm) |-> SplitUnits(GroupByDate(SortByTime(sm[k[1]][k[2]])))]

\* the files after a path that does not exist
AfterMissing ==
    {i \in 1..Len(conti_chats) : \E j \in 1..(i - 1) : ~conti_chats[j].exists}

\* the places among the first n listed paths of those that do not exist
RECURSIVE MissingAmong(_, _)
MissingAmong(files, n) ==
    IF n = 0 THEN <<>>
    ELSE MissingAmong(files, n - 1) \o (IF files[n].exists THEN <<>> ELSE <<n>>)

\* C14: in the pairwise pipeline a path that does not exist is skipped with a
\* warning (one "File not found" warning for each such path the loop has
\* passed, in the order of the list, and none for a file that exists),
\* contributes no message and does not stop the loop: every other listed file
\* is read, and the run returns what it returns when the path is not listed.
C14_MissingFileSkipped ==
    /\ file_warnings = MissingAmong(conti_chats, file_idx - 1)
    /\ pc = "done" =>
          /\ file_idx = Len(conti_chats) + 1
          /\ file_warnings = MissingAmong(conti_chats, Len(conti_chats))
          /\ initial_count = Len(AllItems(ExistingFiles(conti_chats)))
          /\ conversation_turns = TurnsFor(user_match_list, ExistingFiles(conti_chats))

\* a path that does not exist between two files with a message each; the
\* message of the file behind it is in the result
C14_Witness ==
    /\ pc = "done"
    /\ Len(conti_chats) = 3
    /\ ~conti_chats[2].exists
    /\ file_warnings = <<2>>
    /\ conti_chats[1].items # <<>>
    /\ \E i \in AfterMissing : \E q \in 1..Len(conti_chats[i].items) :
          \E k \in DOMAIN conversation_turns :
              \E m \in Range(Concat(Concat(conversation_turns[k]))) :
                  m[4] = conti_chats[i].items[q].body

(***************************************************************************)
(* The HTML step.                                                          *)
(***************************************************************************)
\* the pairs whose turn in the HTML loop is over
PairsDone == {output_users[i] : i \in 1..(html_idx - 1)}

\* the pairs among them that have a conversation under one order or the other
PairsFound ==
    {p \in PairsDone : \E k \in DOMAIN conversation_turns : k = p \/ k = <<p[2], p[1]>>}

\* C15: a pair HTML is asked for that has no conversation, under (i, j) or
\* (j, i), is reported and gets no page, nothing is raised, and the pairs
\* after it are still processed; the group-chat generator writes no page
\* when no message has the chat id asked for.
C15_NoConversationNoPage ==
    /\ pc \in {"generate_html", "returned"} =>
          /\ DOMAIN html_files = PairsFound
          /\ Range(html_log) = PairsDone \ PairsFound
          /\ pc = "returned" <=> html_idx = Len(output_users) + 1
    /\ pc = "raised" => html_idx = 1
    /\ (gpc \in {"segment", "no_messages", "done", "written"}
           /\ \A i \in 1..Len(messages) : Get(messages[i], "chat_id", None) # chat_id) =>
          /\ gpc \in {"segment", "no_messages"}
          /\ ~group_html.written

\* a pair without a conversation first, then a pair with one: the first is
\* reported, the second has its page
C15_Witness ==
    /\ pc = "returned"
    /\ output_users = <<<<"alice", "bob">>, <<"alice", "Robert">>>>
    /\ html_log = <<<<"alice", "bob">>>>
    /\ DOMAIN html_files = {<<"alice", "Robert">>}
    /\ html_files[<<"alice", "Robert">>].blocks # <<>>

\* the group chat has messages, none of the chat asked for: no page
C15_WitnessGroup ==
    /\ gpc = "no_messages"
    /\ messages # <<>>
    /\ chat_id = "!nobody"
    /\ ~group_html.written

(***************************************************************************)
(* Sorting before segmenting.                                              *)
(***************************************************************************)
\* non-decreasing timestamps, of message tuples and of chat messages
NonDecreasing(msgs) == \A i \in 1..(Len(msgs) - 1) : msgs[i][1] <= msgs[i + 1][1]
ChatNonDecreasing(msgs) ==
    \A i \in 1..(Len(msgs) - 1) :
        Get(msgs[i], "timestamp", DatetimeMin) <= Get(msgs[i + 1], "timestamp", DatetimeMin)

\* the same messages, each as often
SameMessages(s, t) ==
    /\ Len(s) = Len(t)
    /\ \A x \in Range(s) \cup Range(t) :
          Cardinality({i \in 1..Len(s) : s[i] = x}) = Cardinality({i \in 1..Len(t) : t[i] = x})

\* the items read, as the tuples stored for conversation k
StoredFor(k) ==
    LET mine == SelectSeq(ReadItems,
                          LAMBDA x : CanonicalPair(x) = {k[1], k[2]})
    IN  [i \in 1..Len(mine) |->
            <<mine[i].ts, Canonical(alias_mapping, mine[i].from),
              Canonical(alias_mapping, mine[i].to), mine[i].body>>]

\* positions after the sort of the pairwise pipeline, after Step 3, after Step 4
AfterSort == pc \in {"segment_by_date", "split_turns", "done", "generate_html", "returned"}
AfterUnits == pc \in {"split_turns", "done", "generate_html", "returned"}
AfterTurns == pc \in {"done", "generate_html", "returned"}

\* C16: whatever the order of the messages in the files and of the files,
\* the messages of every conversation are in non-decreasing order of time
\* before the conversation is grouped into units and turns, which are cut
\* from that sorted list; the group-chat pipeline sorts the messages of the
\* chat before it segments them.
C16_SortedBeforeSegmenting ==
    /\ AfterSort =>
          \A k \in ConvKeys(structured_messages) :
              /\ NonDecreasing(structured_messages[k[1]][k[2]])
              /\ SameMessages(structured_messages[k[1]][k[2]], StoredFor(k))
    /\ AfterUnits =>
          \A k \in ConvKeys(structured_messages) :
              Concat(conversation_segments[k]) = structured_messages[k[1]][k[2]]
    /\ AfterTurns =>
          \A k \in ConvKeys(structured_messages) :
              Concat(Concat(conversation_turns[k])) = structured_messages[k[1]][k[2]]
    /\ gpc \in {"segment", "no_messages", "done", "written"} =>
          /\ ChatNonDecreasing(chat_messages)
          /\ SameMessages(chat_messages, ChatMessages(messages, chat_id))
    /\ gpc \in {"done", "written"} => Concat(turns) = chat_messages

\* the latest message was read first, from the first file, and is the last of
\* the last turn
C16_Witness ==
    /\ pc = "done"
    /\ Len(conti_chats) = 2
    /\ Len(conti_chats[1].items) = 2
    /\ conti_chats[1].items[1].ts = 3600
    /\ conti_chats[1].items[2].ts = 60
    /\ conti_chats[2].items[1].ts = 0
    /\ \E k \in DOMAIN conversation_turns :
          LET all == Concat(Concat(conversation_turns[k]))
          IN  Len(all) = 3 /\ all[1][1] = 0 /\ all[2][1] = 60 /\ all[3][1] = 3600

\* a group chat whose file has the messages of the chat out of order
C16_WitnessGroup ==
    /\ gpc = "done"
    /\ ~ChatNonDecreasing(ChatMessages(messages, chat_id))
    /\ Len(chat_messages) = 3
    /\ Concat(turns) = chat_messages

(***************************************************************************)
(* The pages.                                                              *)
(***************************************************************************)
\* the pages written: <<page, the turns of the conversation it shows>>
PairPagesWritten ==
    {<<html_files[p], Concat(conversation_turns[ConversationKey(conversation_turns, p)])>> :
        p \in DOMAIN html_files}
GroupPagesWritten == IF group_html.written THEN {<<group_html.page, turns>>} ELSE {}
PagesWritten == PairPagesWritten \cup GroupPagesWritten

\* the controls are those of the configurations, one group each, in order,
\* with the dependent select and the text input for the dict options only
ControlsMatch(controls, configs) ==
    /\ Len(controls) = Len(configs)
    /\ \A j \in 1..Len(configs) :
          /\ controls[j].cat = j
          /\ controls[j].label = configs[j].label
          /\ controls[j].detailed <=> configs[j].options.type = "dict"
          /\ controls[j].other <=> configs[j].options.type = "dict"

\* C17: a page has one turn block per turn of the conversation, in the order
\* of the turns, and every block has one control group per dropdown
\* configuration, in the order of the configurations, with a 'Detailed'
\* select and an 'Other' input exactly for the configurations whose options
\* are a mapping.
C17_BlockPerTurn ==
    \A w \in PagesWritten :
        /\ Len(w[1].blocks) = Len(w[2])
        /\ \A i \in 1..Len(w[2]) :
              /\ w[1].blocks[i].messages = w[2][i]
              /\ ControlsMatch(w[1].blocks[i].controls, dropdown_configs)

\* a pairwise page of four turns in two units with a dependent and a flat
\* dropdown
C17_Witness ==
    /\ pc = "returned"
    /\ Len(dropdown_configs) = 2
    /\ dropdown_configs[1].options.type = "dict"
    /\ dropdown_configs[2].options.type = "list"
    /\ \E p \in DOMAIN html_files :
          /\ Len(html_files[p].blocks) = 4
          /\ Len(conversation_turns[ConversationKey(conversation_turns, p)]) = 2
          /\ html_files[p].blocks[4].controls[1].detailed
          /\ ~html_files[p].blocks[4].controls[2].detailed

\* a group-chat page of three turns
C17_WitnessGroup ==
    /\ gpc = "written"
    /\ Len(turns) = 3
    /\ Len(group_html.page.blocks) = 3
    /\ Len(dropdown_configs) = 2

\* the columns of the configurations: the CSV column (the label when none is
\* given), and a second one for options that are a mapping
ColumnOf(config) == IF "csv_column" \in DOMAIN config THEN config.csv_column ELSE config.label
ExpectedColumns(configs) ==
    Concat([j \in 1..Len(configs) |->
               IF configs[j].options.type = "dict"
               THEN <<<<ColumnOf(configs[j])>>, <<ColumnOf(configs[j]), "_Detailed">>>>
               ELSE <<<<ColumnOf(configs[j])>>>>])

\* C18: the CSV header of a pairwise page is 'Unit', 'Turn', that of a
\* group-chat page 'Turn', 'Sender', followed for every configuration, in
\* order, by its csv_column and, when its options are a mapping, by
\* '<csv_column>_Detailed': one or two columns per configuration.
C18_CsvHeader ==
    /\ \A p \in DOMAIN html_files :
          html_files[p].csv_header
              = <<<<"Unit">>, <<"Turn">>>> \o ExpectedColumns(dropdown_configs)
    /\ group_html.written =>
          group_html.page.csv_header
              = <<<<"Turn">>, <<"Sender">>>> \o ExpectedColumns(dropdown_configs)
    /\ \A w \in PagesWritten :
          /\ Len(w[1].csv_header) >= 2 + Len(dropdown_configs)
          /\ Len(w[1].csv_header) <= 2 + 2 * Len(dropdown_configs)

\* a dependent dropdown with its own CSV column and a flat one with the
\* default: three columns after 'Unit', 'Turn'
C18_Witness ==
    /\ pc = "returned"
    /\ \E p \in DOMAIN html_files :
          html_files[p].csv_header =
              <<<<"Unit">>, <<"Turn">>, <<"RoleColumn">>, <<"RoleColumn", "_Detailed">>,
                <<"Tone">>>>

\* the header of a group-chat page
C18_WitnessGroup ==
    /\ gpc = "written"
    /\ group_html.page.csv_header =
           <<<<"Turn">>, <<"Sender">>, <<"Intention">>, <<"Intention", "_Detailed">>,
             <<"Tone">>>>

(***************************************************************************)
(* Turns and calendar dates.                                               *)
(***************************************************************************)
\* the conversations after Step 4: <<sorted messages, units of turns>>
ConversationsDone ==
    IF pc = "done"
    THEN {<<structured_messages[k[1]][k[2]], conversation_turns[k]>> :
             k \in DOMAIN conversation_turns}
    ELSE {}

\* messages i and i + 1 of a conversation have one sender and are within the
\* threshold
CloseSameSender(msgs, i) ==
    /\ SenderOf(msgs[i]) = SenderOf(msgs[i + 1])
    /\ Gap(msgs[i], msgs[i + 1]) <= TurnGapSeconds

\* m1 is the last message of a unit and m2 the first of the next unit
UnitBoundary(units, m1, m2) ==
    \E u \in 1..(Len(units) - 1) :
        LET last_turn == units[u][Len(units[u])]
        IN  last_turn[Len(last_turn)] = m1 /\ units[u + 1][1][1] = m2

\* C19 as stated: two consecutive messages of a conversation with one sender
\* and at most 1800 seconds apart are in the same turn, also when they fall
\* on different calendar dates.
C19_Original_AcrossDates ==
    \A c \in ConversationsDone : \A i \in 1..(Len(c[1]) - 1) :
        CloseSameSender(c[1], i) => AdjacentInATurn(Concat(c[2]), c[1][i], c[1][i + 1])

\* C19, amended: two consecutive messages of a conversation with one sender,
\* at most 1800 seconds apart and on the same calendar date are in the same
\* turn; two consecutive messages on different dates are in different units,
\* hence in different turns, whatever their sender and gap.
C19_SameDateSameTurn ==
    \A c \in ConversationsDone : \A i \in 1..(Len(c[1]) - 1) :
        /\ (CloseSameSender(c[1], i) /\ Day(c[1][i]) = Day(c[1][i + 1])) =>
              AdjacentInATurn(Concat(c[2]), c[1][i], c[1][i + 1])
        /\ Day(c[1][i]) # Day(c[1][i + 1]) =>
              /\ UnitBoundary(c[2], c[1][i], c[1][i + 1])
              /\ ~AdjacentInATurn(Concat(c[2]), c[1][i], c[1][i + 1])

\* one sender a minute before midnight, at midnight and a minute after: the
\* first message is a unit of its own, the other two share a turn
C19_Witness ==
    \E c \in ConversationsDone :
        /\ Len(c[1]) = 3
        /\ TsOf(c[1][1]) = -60 /\ TsOf(c[1][2]) = 0 /\ TsOf(c[1][3]) = 60
        /\ \A i \in 1..3 : SenderOf(c[1][i]) = "alice"
        /\ c[2] = <<<<<<c[1][1]>>>>, <<<<c[1][2], c[1][3]>>>>>>

(***************************************************************************)
(* Conservation of messages.                                               *)
(***************************************************************************)
\* the places <<conversation, unit, turn, position>> of the returned
\* dictionary
Places ==
    UNION {UNION {UNION {{<<k, u, t, q>> : q \in 1..Len(conversation_turns[k][u][t])} :
                            t \in 1..Len(conversation_turns[k][u])} :
                     u \in 1..Len(conversation_turns[k])} :
              k \in DOMAIN conversation_turns}
At(p) == conversation_turns[p[1]][p[2]][p[3]][p[4]]

\* the tuple the pipeline stores for an item
StoredTuple(x) ==
    <<x.ts, Canonical(alias_mapping, x.from), Canonical(alias_mapping, x.to), x.body>>

\* C20: every message of every existing input file is at exactly one place
\* of the returned dictionary (one conversation, one unit, one turn), nothing
\* else is in it, and the number of messages stored equals the number read:
\* 'Mismatch detected' is never printed.
C20_MessagesConserved ==
    /\ ~mismatch
    /\ pc \in {"segment_by_date", "split_turns", "done"} =>
          processed_count = initial_count /\ initial_count = Len(ReadItems)
    /\ pc = "done" =>
          /\ ReadItems = AllItems(ExistingFiles(conti_chats))
          /\ \A i \in 1..Len(ReadItems) :
                Cardinality({p \in Places : At(p) = StoredTuple(ReadItems[i])}) = 1
          /\ \A p \in Places : \E i \in 1..Len(ReadItems) : At(p) = StoredTuple(ReadItems[i])
          /\ Cardinality(Places) = Len(ReadItems)

\* two messages of one conversation from two files, in two turns
C20_Witness ==
    /\ pc = "done"
    /\ Len(conti_chats) = 3
    /\ Len(ReadItems) = 2
    /\ initial_count = 2 /\ processed_count = 2
    /\ Cardinality(DOMAIN conversation_turns) = 1
    /\ Cardinality(Places) = 2
    /\ \E p \in Places : p[3] = 2


(***************************************************************************)
(* The two segmenters on one input.                                        *)
(***************************************************************************)
\* the conversation both segmenters were given, as the pairwise pipeline
\* stores it
SharedConversation ==
    IF <<"alice", "bob">> \in DOMAIN conversation_segments
    THEN Concat(conversation_segments[<<"alice", "bob">>])
    ELSE <<>>

OnOneDate(msgs) == \A i, j \in 1..Len(msgs) : Day(msgs[i]) = Day(msgs[j])

\* the turns of the pairwise segmenter and of the group-chat segmenter, each
\* message read as <<timestamp, sender, body>>
PairwiseTurnsBrief ==
    LET units == conversation_turns[<<"alice", "bob">>]
    IN  [t \in 1..Len(units[1]) |-> Briefs(units[1][t])]
GroupTurnsBrief == [t \in 1..Len(turns) |-> Briefs(ChatTuples(turns[t]))]

\* C21: on a timestamp-sorted message sequence whose messages all fall on one
\* calendar date, the pairwise segmenter and the group-chat segmenter produce
\* the same sequence of turns.
C21_SegmentersAgree ==
    (/\ pc = "done" /\ gpc = "done"
     /\ SharedConversation # <<>>
     /\ Briefs(SharedConversation) = Briefs(ChatTuples(chat_messages))
     /\ OnOneDate(SharedConversation)) =>
        /\ Len(conversation_turns[<<"alice", "bob">>]) = 1
        /\ PairwiseTurnsBrief = GroupTurnsBrief

\* one date, one sender kept together over a gap of exactly 1800 seconds, a
\* change of sender and a gap of more than 1800 seconds: both give the same
\* three turns
C21_Witness ==
    /\ pc = "done" /\ gpc = "done"
    /\ Briefs(SharedConversation) =
           <<<<0, "alice", 1>>, <<1800, "alice", 2>>, <<1800, "bob", 3>>,
             <<3700, "bob", 4>>>>
    /\ OnOneDate(SharedConversation)
    /\ PairwiseTurnsBrief =
           <<<<<<0, "alice", 1>>, <<1800, "alice", 2>>>>, <<<<1800, "bob", 3>>>>,
             <<<<3700, "bob", 4>>>>>>
    /\ GroupTurnsBrief = PairwiseTurnsBrief


(***************************************************************************)
(* The keys of the returned dictionary.                                    *)
(***************************************************************************)
\* the messages stored under key k of the returned dictionary
MessagesUnder(k) == Concat(Concat(conversation_turns[k]))

\* looking the pair up in either order finds the same conversation, or none
SameLookup(ct, i, j) ==
    /\ HasConversation(ct, <<i, j>>) <=> HasConversation(ct, <<j, i>>)
    /\ HasConversation(ct, <<i, j>>) =>
          ct[ConversationKey(ct, <<i, j>>)] = ct[ConversationKey(ct, <<j, i>>)]

\* C22: every key (a, b) of the returned dictionary has a <= b in string
\* order, no two keys are the same unordered pair, every message stored under
\* (a, b) has a and b as its canonical sender and receiver in one order or
\* the other, and a lookup as (i, j) or as (j, i) finds the same conversation.
C22_KeysAreSortedPairs ==
    pc = "done" =>
        /\ \A k \in DOMAIN conversation_turns :
              /\ StrLeq(k[1], k[2])
              /\ \A k2 \in DOMAIN conversation_turns :
                    {k[1], k[2]} = {k2[1], k2[2]} => k = k2
              /\ \A q \in 1..Len(MessagesUnder(k)) :
                    LET m == MessagesUnder(k)[q]
                    IN  \/ (m[2] = k[1] /\ m[3] = k[2])
                        \/ (m[2] = k[2] /\ m[3] = k[1])
        /\ \A i, j \in Names : SameLookup(conversation_turns, i, j)

\* bob is an alias of Robert: a message from alice to bob and one from
\* Robert to alice are both under ("Robert", "alice"), which is found as
\* ("alice", "Robert") too; ("alice", "bob") finds nothing
C22_Witness ==
    /\ pc = "done"
    /\ DOMAIN conversation_turns = {<<"Robert", "alice">>}
    /\ \E q1, q2 \in 1..Len(MessagesUnder(<<"Robert", "alice">>)) :
          LET ms == MessagesUnder(<<"Robert", "alice">>)
          IN  /\ ms[q1][2] = "alice" /\ ms[q1][3] = "Robert"
              /\ ms[q2][2] = "Robert" /\ ms[q2][3] = "alice"
    /\ \E i \in 1..Len(ReadItems) : ReadItems[i].to = "bob"
    /\ ConversationKey(conversation_turns, <<"alice", "Robert">>) = <<"Robert", "alice">>
    /\ ~HasConversation(conversation_turns, <<"alice", "bob">>)


(***************************************************************************)
(* Messages with equal timestamps.                                         *)
(***************************************************************************)
\* the messages of a list of tuples, and of a list of chat messages, that
\* have timestamp t, in the order of the list
AtTime(msgs, t) == SelectSeq(msgs, LAMBDA m : TsOf(m) = t)
ChatAtTime(msgs, t) == SelectSeq(msgs, LAMBDA m : Get(m, "timestamp", DatetimeMin) = t)

TimesOf(msgs) == {TsOf(msgs[i]) : i \in 1..Len(msgs)}
ChatTimesOf(msgs) == {Get(msgs[i], "timestamp", DatetimeMin) : i \in 1..Len(msgs)}

\* C23: the sort is stable: the messages of one conversation, or of one
\* group chat, that have equal timestamps keep the order in which they were
\* read from the input, in the sorted list and inside the units and turns.
C23_SortIsStable ==
    /\ AfterSort =>
          \A k \in ConvKeys(structured_messages) : \A t \in TimesOf(StoredFor(k)) :
              AtTime(structured_messages[k[1]][k[2]], t) = AtTime(StoredFor(k), t)
    /\ AfterTurns =>
          \A k \in DOMAIN conversation_turns : \A t \in TimesOf(StoredFor(k)) :
              AtTime(Concat(Concat(conversation_turns[k])), t) = AtTime(StoredFor(k), t)
    /\ gpc \in {"segment", "no_messages", "done", "written"} =>
          \A t \in ChatTimesOf(chat_messages) :
              ChatAtTime(chat_messages, t) = ChatAtTime(ChatMessages(messages, chat_id), t)
    /\ gpc \in {"done", "written"} =>
          \A t \in ChatTimesOf(chat_messages) :
              ChatAtTime(Concat(turns), t) = ChatAtTime(ChatMessages(messages, chat_id), t)

\* the second file is read first: message 2 (of bob, who is Robert) and
\* message 1 (of alice) have the same time, a later message stands between them in reading order, and
\* after the sort message 2 still comes before message 1
C23_Witness ==
    /\ pc = "done"
    /\ Len(ReadItems) = 3
    /\ ReadItems[1].body = 2 /\ ReadItems[1].ts = 60
    /\ ReadItems[2].body = 3 /\ ReadItems[2].ts = 0
    /\ ReadItems[3].body = 1 /\ ReadItems[3].ts = 60
    /\ <<"Robert", "alice">> \in DOMAIN conversation_turns
    /\ LET all == Concat(Concat(conversation_turns[<<"Robert", "alice">>]))
       IN  Len(all) = 3 /\ all[1][4] = 3 /\ all[2][4] = 2 /\ all[3][4] = 1

\* a group chat: two messages of the chat with one timestamp are read before
\* an earlier one and keep their order behind it
C23_WitnessGroup ==
    /\ gpc = "done"
    /\ Len(messages) = 3
    /\ \A i \in 1..3 : messages[i].chat_id = "!room" /\ "timestamp" \in DOMAIN messages[i]
    /\ messages[1].timestamp = 60 /\ messages[2].timestamp = 60
    /\ messages[3].timestamp = 0
    /\ chat_messages = <<messages[3], messages[1], messages[2]>>
    /\ Concat(turns) = chat_messages


(***************************************************************************)
(* What the cleaner changes.                                               *)
(***************************************************************************)
CleanedKeys == {"chat_id", "sender_alias"}

\* the messages of the input file, as they were parsed
ParsedMessages == [i \in 1..Len(input_file.items) |-> input_file.items[i].msg]

\* C24: on success clean_matrix_json returns one cleaned message per input
\* message, in the input order; a cleaned message has the keys of its input
\* message and differs from it at most in the values of chat_id and
\* sender_alias; the parsed input messages are not modified.
C24_OnlyTwoFieldsChange ==
    cpc = "done" =>
        /\ Len(result) = Len(ParsedMessages)
        /\ \A i \in 1..Len(result) :
              /\ DOMAIN result[i] = DOMAIN ParsedMessages[i]
              /\ \A k \in DOMAIN result[i] \ CleanedKeys : result[i][k] = ParsedMessages[i][k]
              /\ \A k \in DOMAIN result[i] \cap CleanedKeys :
                    k \notin input_file.items[i].non_string =>
                        result[i][k] = (IF k = "chat_id" THEN CleanChatId(ParsedMessages[i][k])
                                        ELSE CleanSender(ParsedMessages[i][k]))
        /\ data = input_file.items

\* two messages: both identifiers of the first and the sender of the second
\* are changed, the message fields are not, and the input still has the raw
\* identifiers
C24_Witness ==
    /\ cpc = "done"
    /\ Len(result) = 2
    /\ ParsedMessages[1] =
           [chat_id |-> Chars_abc123, sender_alias |-> Chars_bob_99, message |-> 1]
    /\ result[1] = [chat_id |-> <<"!", "a", "b", "c", "1", "2", "3">>,
                    sender_alias |-> <<"b", "o", "b", "_", "9", "9">>, message |-> 1]
    /\ ParsedMessages[2] = [sender_alias |-> Chars_plainname, message |-> 2]
    /\ result[2].sender_alias # Chars_plainname
    /\ result[2].message = 2
    /\ data[1].msg = ParsedMessages[1] /\ data[2].msg = ParsedMessages[2]


(***************************************************************************)
(* Cleaning what was cleaned.                                              *)
(***************************************************************************)
\* C25: identifier cleaning is idempotent: the cleaner leaves every message
\* it returns as it is when it is given that message again, and so every
\* cleaned chat_id and sender_alias.
C25_CleaningIsIdempotent ==
    cpc = "done" =>
        \A i \in 1..Len(result) :
            /\ CleanMsg(result[i]) = result[i]
            /\ "chat_id" \in DOMAIN result[i] =>
                  CleanChatId(result[i].chat_id) = result[i].chat_id
            /\ "sender_alias" \in DOMAIN result[i] =>
                  CleanSender(result[i].sender_alias) = result[i].sender_alias

\* a quoted room id with its server: the first cleaning changes it, the
\* second does not
C25_Witness ==
    /\ cpc = "done"
    /\ Len(result) = 1
    /\ "chat_id" \in DOMAIN result[1]
    /\ ParsedMessages[1].chat_id = <<Quote>> \o Chars_abc123 \o <<Quote>>
    /\ result[1].chat_id = <<"!", "a", "b", "c", "1", "2", "3">>
    /\ CleanChatId(result[1].chat_id) = result[1].chat_id

\* a sender with '@' and server
C25_WitnessSender ==
    /\ cpc = "done"
    /\ Len(result) = 1
    /\ "sender_alias" \in DOMAIN result[1]
    /\ ParsedMessages[1].sender_alias = <<"@", "a", "-", ":", "a">>
    /\ result[1].sender_alias = <<"a", "-">>
    /\ CleanSender(result[1].sender_alias) = result[1].sender_alias

(***************************************************************************)
(* The batch cleaner.                                                      *)
(***************************************************************************)
\* clean_matrix_json cannot clean the file: it is not a JSON array or object,
\* the loop body raises on an item, or a string cannot be written
FailsToClean(file) ==
    \/ file.content \notin {"array", "object"}
    \/ \E i \in 1..Len(file.items) :
          \/ RaisesInLoop(file.items[i])
          \/ ~file.items[i].encodable

\* what the batch cleaner reports and leaves for the i-th file: as if the
\* file were the only one
HandledAlone(i) ==
    LET file == file_paths[i].file
        path == OutputPath(file_paths[i].name)
    IN  IF FailsToClean(file)
        THEN /\ batch_log[i] = 0
             /\ path \in DOMAIN output_dir => ~output_dir[path].complete
        ELSE /\ batch_log[i] = Len(file.items)
             /\ path \in DOMAIN output_dir
             /\ output_dir[path].complete
             /\ output_dir[path].content =
                    [j \in 1..Len(file.items) |-> LoopBody(file.items[j]).cleaned_msg]

\* C26: the batch cleaner attempts every file glob found; a file that fails
\* to clean gives an empty result for that file only, and the files after it
\* are processed as they would be without it.
C26_BatchSkipsAndContinues ==
    /\ bpc \in {"loop", "call", "finished"} =>
          /\ Len(batch_log) = batch_idx - 1
          /\ \A i \in 1..Len(batch_log) : HandledAlone(i)
    /\ bpc = "finished" => Len(batch_log) = Len(file_paths)

\* glob gave d.json, a.json, b.json: malformed JSON, then a message whose
\* chat_id is a number, then a file of two messages: 0, 0 and 2 messages, and
\* the third file is cleaned
C26_Witness ==
    /\ bpc = "finished"
    /\ Len(file_paths) = 3
    /\ file_paths[1].name = "d.json"
    /\ file_paths[2].name = "a.json"
    /\ file_paths[3].name = "b.json"
    /\ file_paths[1].file.content = "malformed"
    /\ FailsToClean(file_paths[2].file) /\ Len(file_paths[2].file.items) = 2
    /\ ~FailsToClean(file_paths[3].file)
    /\ batch_log = <<0, 0, 2>>
    /\ DOMAIN output_dir = {"out/cleaned_b.json"}
    /\ output_dir["out/cleaned_b.json"].content[1].chat_id =
           <<"!", "a", "b", "c", "1", "2", "3">>

\* a file that fails while it is saved leaves a file cut short, and the next
\* file is cleaned
C26_WitnessSave ==
    /\ bpc = "finished"
    /\ Len(file_paths) = 2
    /\ batch_log = <<0, 1>>
    /\ DOMAIN output_dir = {"out/cleaned_a.json", "out/cleaned_b.json"}
    /\ ~output_dir["out/cleaned_a.json"].complete
    /\ output_dir["out/cleaned_b.json"].complete


(***************************************************************************)
(* An alias file that cannot be loaded.                                    *)
(***************************************************************************)
\* the tuple stored for an item when no name has an alias
RawTuple(x) == <<x.ts, x.from, x.to, x.body>>

\* C27: when the alias file cannot be loaded, the failure is printed and the
\* pipeline goes on with an empty alias table: no exception leaves the
\* function, every name is its own canonical name, and every message read is
\* stored with its raw sender and receiver under their sorted pair.
C27_UnreadableAliasFile ==
    ~user_match_list.readable =>
        /\ pc # "raised"
        /\ pc # "load_aliases" =>
              /\ alias_warning
              /\ alias_mapping = EmptyDict
              /\ \A name \in Names : Canonical(alias_mapping, name) = name
              /\ \A i \in 1..Len(ReadItems) :
                    LET x == ReadItems[i]
                        k == SortedPair(x.from, x.to)
                    IN  /\ k \in ConvKeys(structured_messages)
                        /\ \E q \in 1..Len(structured_messages[k[1]][k[2]]) :
                              structured_messages[k[1]][k[2]][q] = RawTuple(x)
        /\ pc = "done" =>
              /\ DOMAIN conversation_turns =
                     {SortedPair(ReadItems[i].from, ReadItems[i].to) : i \in 1..Len(ReadItems)}
              /\ {At(p) : p \in Places} = {RawTuple(ReadItems[i]) : i \in 1..Len(ReadItems)}

\* the alias file is not there: a message from bob and one from Robert to
\* alice are two conversations, and the pipeline has finished
C27_Witness ==
    /\ ~user_match_list.readable
    /\ alias_warning
    /\ pc = "done"
    /\ Len(ReadItems) = 2
    /\ ReadItems[1].from = "bob" /\ ReadItems[1].to = "alice"
    /\ ReadItems[2].from = "Robert" /\ ReadItems[2].to = "alice"
    /\ DOMAIN conversation_turns = {<<"alice", "bob">>, <<"Robert", "alice">>}


(***************************************************************************)
(* The main user of a group chat.                                          *)
(***************************************************************************)
\* the senders of a list of messages, and the number of messages of one
SendersOf(chat) ==
    {chat[i].sender_alias : i \in {j \in 1..Len(chat) : "sender_alias" \in DOMAIN chat[j]}}
CountIn(chat, u) ==
    Cardinality({i \in 1..Len(chat) :
                    "sender_alias" \in DOMAIN chat[i] /\ chat[i].sender_alias = u})

\* u is a sender of the chat with the most messages, or the empty string when
\* the chat has no message with a sender
MostActive(u, chat) ==
    IF SendersOf(chat) = {} THEN u = ""
    ELSE /\ u \in SendersOf(chat)
         /\ \A v \in SendersOf(chat) : CountIn(chat, v) <= CountIn(chat, u)

\* what find_most_active_user returns for the chat is such a sender
FoundIsMostActive ==
    MostActive(FindMostActiveUser(messages, chat_id), ChatMessages(messages, chat_id))

\* process_group_chat at 'if not main_user', and whether a main user was given
ChoosesMainUser == gpc = "main_user" /\ gpc' = "html"
NotGiven == main_user \in {None, ""}

\* C28 as stated: find_most_active_user returns a sender of the chat with the
\* most messages, or the empty string when the chat has no message with a
\* sender; process_group_chat makes this user the main user exactly when no
\* main user is given, and keeps a given main user.
C28_MostActiveIsMainUser ==
    /\ []FoundIsMostActive
    /\ [][ChoosesMainUser =>
             IF NotGiven THEN main_user' = FindMostActiveUser(messages, chat_id)
             ELSE main_user' = main_user]_vars

\* no main user was given, the sender with the most messages of the chat is
\* the empty string, and the main user is alice, who wrote fewer
C28_EmptySenderCase ==
    /\ gpc = "html"
    /\ main_user = "alice"
    /\ FindMostActiveUser(messages, chat_id) = ""
    /\ LET chat == ChatMessages(messages, chat_id)
       IN  /\ Get(chat[1], "sender_alias", "") = "alice"
           /\ CountIn(chat, "") = 2
           /\ CountIn(chat, "alice") = 1

\* what holds in every run: the user found is a most active sender; a given
\* main user is kept; when none is given the main user is the user found,
\* or, when that is the empty string, the sender of the first message of the
\* chat, which is the user found unless a sender of the chat is the empty
\* string
C28_FoundOrFirstSender ==
    /\ []FoundIsMostActive
    /\ [][ChoosesMainUser =>
             LET found == FindMostActiveUser(messages, chat_id)
                 chat == ChatMessages(messages, chat_id)
             IN  /\ ~NotGiven => main_user' = main_user
                 /\ (NotGiven /\ found # "") => main_user' = found
                 /\ (NotGiven /\ found = "" /\ chat # <<>>) =>
                        main_user' = Get(chat[1], "sender_alias", "")
                 /\ (NotGiven /\ found = "" /\ chat = <<>>) => main_user' = ""
                 /\ (NotGiven /\ "" \notin SendersOf(chat)) => main_user' = found]_vars

\* a given main user who wrote nothing in the chat is kept
C28_GivenKept ==
    /\ gpc = "html"
    /\ main_user = "bob"
    /\ FindMostActiveUser(messages, chat_id) = "alice"
    /\ CountIn(ChatMessages(messages, chat_id), "bob") = 0
    /\ Len(messages) = 3

\* no main user given: alice, with two of the three messages of the chat
C28_MostActiveChosen ==
    /\ gpc = "html"
    /\ main_user = "alice"
    /\ file_path.exists /\ Len(messages) = 3
    /\ Len(ChatMessages(messages, chat_id)) = 3
    /\ Get(messages[1], "sender_alias", "") = "bob"
    /\ CountIn(messages, "alice") = 2


(***************************************************************************)
(* The numbers of the turn blocks.                                         *)
(***************************************************************************)
\* the pairwise pages written, each with the units it was made from: those
\* of the pipeline and the one of coding_files_generator.py
ScriptPagesWritten ==
    IF "conversation_turns" \in DOMAIN script_globals
    THEN {<<script_html[f],
            script_globals["conversation_turns"][
                ConversationKey(script_globals["conversation_turns"],
                                <<"bentley", "mavemat">>)]>> : f \in DOMAIN script_html}
    ELSE {}
PairPagesWithUnits ==
    {<<html_files[p], conversation_turns[ConversationKey(conversation_turns, p)]>> :
        p \in DOMAIN html_files}
    \cup (IF spc = "load" THEN ScriptPagesWritten ELSE {})

\* the turns of the units that have messages
RealTurns(units) == SelectSeq(Concat(units), LAMBDA turn : turn # <<>>)

\* block i comes before block j in unit order, then turn order
IndexBefore(b1, b2) == b1.unit < b2.unit \/ (b1.unit = b2.unit /\ b1.turn < b2.turn)

\* C29: the turn blocks of a pairwise page are numbered 1, 2, ... without
\* gaps across the units, in unit order then turn order; no two blocks have
\* the same (data-unit, data-turn) pair, which is the place of the block's
\* turn in the conversation; the number of the last block is the number of
\* turns of the conversation.
C29_TurnNumbers ==
    \A w \in PairPagesWithUnits :
        LET blocks == w[1].blocks
            units == w[2]
        IN  /\ \A i \in 1..Len(blocks) :
                  /\ blocks[i].number = i
                  /\ blocks[i].unit \in 0..(Len(units) - 1)
                  /\ blocks[i].turn \in 0..(Len(units[blocks[i].unit + 1]) - 1)
                  /\ blocks[i].messages = units[blocks[i].unit + 1][blocks[i].turn + 1]
            /\ \A i, j \in 1..Len(blocks) : i < j => IndexBefore(blocks[i], blocks[j])
            /\ \A i, j \in 1..Len(blocks) :
                  (blocks[i].unit = blocks[j].unit /\ blocks[i].turn = blocks[j].turn) => i = j
            /\ Len(blocks) = Len(RealTurns(units))
            /\ blocks # <<>> => blocks[Len(blocks)].number = Len(RealTurns(units))

\* a page of the pipeline: three turns in the first unit and one in the
\* second, which is 'Turn 4' with the index pair (1, 0)
C29_Witness ==
    /\ pc = "returned"
    /\ \E p \in DOMAIN html_files :
          LET blocks == html_files[p].blocks
              units == conversation_turns[ConversationKey(conversation_turns, p)]
          IN  /\ Len(units) = 2 /\ Len(units[1]) = 3 /\ Len(units[2]) = 1
              /\ Len(blocks) = 4
              /\ blocks[3].number = 3 /\ blocks[3].unit = 0 /\ blocks[3].turn = 2
              /\ blocks[4].number = 4 /\ blocks[4].unit = 1 /\ blocks[4].turn = 0

\* the page of the script: three turns in two units
C29_WitnessScript ==
    /\ spc = "load"
    /\ \E f \in DOMAIN script_html :
          LET blocks == script_html[f].blocks
          IN  /\ Len(blocks) = 3
              /\ blocks[3].number = 3 /\ blocks[3].unit = 1 /\ blocks[3].turn = 0


(***************************************************************************)
(* C30.  coding_files_generator.py run as a script: conversation_turns is  *)
(* loaded from the pickle file before conversation_to_html is called with  *)
(* it, so the call never reads an undefined conversation_turns.            *)
(***************************************************************************)
PickleLoaded ==
    /\ "read_pickle" \in DOMAIN script_globals
    /\ "conversation_turns" \in DOMAIN script_globals
    /\ script_globals["conversation_turns"] = pickle_file.value

\* C30: the script never stops with the NameError of an unbound
\* conversation_turns, and when it stands at the call of conversation_to_html
\* the pickle file has been loaded into conversation_turns
C30_LoadedBeforeCall ==
    /\ spc # "name_error"
    /\ spc = "call" => PickleLoaded

\* the run the statement is about: a fresh interpreter, the pickle file in
\* place, the call raised NameError and no page was written
C30_NameError ==
    /\ spc = "name_error"
    /\ pickle_file.exists
    /\ "conversation_turns" \notin DOMAIN script_globals
    /\ script_html = EmptyDict

\* what the script does: read_pickle is not yet defined whenever the call is
\* reached, and a page is only ever written from a conversation_turns that
\* was bound before the script started
C30_CallPrecedesLoad ==
    /\ spc \in {"start", "call", "name_error"} =>
           "read_pickle" \notin DOMAIN script_globals
    /\ [][spc = "call" /\ spc' = "load" =>
              "read_pickle" \notin DOMAIN script_globals]_vars

=============================================================================
